---- MODULE Spec2Model ----
(***************************************************************************)
(* Sports registration hub: the registration ledger (table registrations   *)
(* with its UNIQUE constraint, row-level policies and logging trigger),    *)
(* the quota evaluator (registration-limits), the student registration     *)
(* form (handleSubmit / performRegistration / warning dialog) and the      *)
(* registrations page (approve / reject).                                  *)
(*                                                                         *)
(* Strings that the code takes apart (role names, academic years) are      *)
(* sequences of characters; every other identifier is an opaque string.    *)
(***************************************************************************)
EXTENDS Integers, Sequences, FiniteSets, TLC

\* ------------------------------------------------------------------ bounds
MaxLimit == 1
MaxRegId == 3
MaxLog == 8
MaxSubmits == 2

\* --------------------------------------------------------------- constants
ADMIN == <<"a","d","m","i","n">>
FIRST_YEAR_COORDINATOR ==
  <<"f","i","r","s","t","_","y","e","a","r","_","c","o","o","r","d","i","n","a","t","o","r">>
SECOND_YEAR_COORDINATOR ==
  <<"s","e","c","o","n","d","_","y","e","a","r","_","c","o","o","r","d","i","n","a","t","o","r">>
THIRD_YEAR_COORDINATOR ==
  <<"t","h","i","r","d","_","y","e","a","r","_","c","o","o","r","d","i","n","a","t","o","r">>
FOURTH_YEAR_COORDINATOR ==
  <<"f","o","u","r","t","h","_","y","e","a","r","_","c","o","o","r","d","i","n","a","t","o","r">>

FIRST == <<"f","i","r","s","t">>
SECOND == <<"s","e","c","o","n","d">>
THIRD == <<"t","h","i","r","d">>
FOURTH == <<"f","o","u","r","t","h">>

GAME == "game"
ATHLETIC == "athletic"

PENDING == "pending"
APPROVED == "approved"
REJECTED == "rejected"

NoUser == "nouser"

\* ------------------------------------------------------- the modelled data
\* Principals (rows of profiles) and their roles.
Profiles == {"admin", "c1", "c2"}

\* The role each profile is created with (handle_new_user).
SignupRole(p) ==
  CASE p = "admin" -> ADMIN
    [] p = "c1" -> FIRST_YEAR_COORDINATOR
    [] p = "c2" -> SECOND_YEAR_COORDINATOR

\* Browser sessions; x1 and x3 are the ones an admin opens the registrations
\* page in.
Sessions == {"x1", "x2", "x3"}
PageSessions == {"x1", "x3"}

\* The principal and the sport a form is mounted with.
FormInputs == {<<"x1", "c1", "g1">>,
               <<"x2", "c1", "g1">>, <<"x2", "c1", "g2">>, <<"x2", "c1", "a1">>,
               <<"x2", "c2", "g1">>, <<"x2", "admin", "g1">>}

\* Rows of students: two first-year students and one second-year student.
StudentIds == {"s1", "s2", "s3"}

StudentYear(s) == IF s = "s3" THEN SECOND ELSE FIRST

\* The students query orders by name; names are ordered as the ids.
StudentRank(s) == CASE s = "s1" -> 1 [] s = "s2" -> 2 [] s = "s3" -> 3

\* Rows of sports: two games and one athletic event.
SportIds == {"g1", "g2", "a1"}

VARIABLES
  \* storage
  profiles,             \* public.profiles: principal -> role
  studentsTbl,          \* public.students: set of student ids
  sports,               \* public.sports: id -> row
  registrations,        \* public.registrations: set of rows
  settings,             \* public.settings: key -> value, with present = FALSE for no row
  activity_logs,        \* public.activity_logs: sequence of rows
  nextId,               \* next registration id
  \* session
  profile,              \* useAuth().profile of the session
  page,                 \* what the session shows: "none" | "form" | "registrations" | "api"
  \* StudentRegistrationForm state
  sport,
  students,
  selectedStudents,
  existingRegistrations,
  registrationLimits,
  studentRegistrationCounts,
  loading,
  registering,
  showWarningDialog,
  studentsExceedingLimits,
  \* running handlers of the form
  pc,                   \* position of the running async handler
  closure,              \* values captured / computed by the running handler
  toast,                \* description of the last toast of the session
  submits,              \* number of handleSubmit calls so far
  \* Registrations page state
  pageRegistrations,
  \* Students page, dashboard and report state
  pageState

dbVars == <<profiles, studentsTbl, sports, registrations, settings,
           activity_logs, nextId>>
pageVars == <<pageRegistrations, pageState>>

\* profiles.role of a principal
ProfileRole(p) == profiles[p]

formVars == <<sport, students, selectedStudents, existingRegistrations,
              registrationLimits, studentRegistrationCounts, loading,
              registering, showWarningDialog, studentsExceedingLimits,
              pc, closure, toast>>
vars == <<profiles, pageState, studentsTbl, sports, registrations, settings, activity_logs, nextId,
          profile, page, sport, students, selectedStudents,
          existingRegistrations, registrationLimits,
          studentRegistrationCounts, loading, registering, showWarningDialog,
          studentsExceedingLimits, pc, closure,
          pageRegistrations, toast, submits>>

\* ------------------------------------------------------------ pure helpers
Range(f) == {f[i] : i \in DOMAIN f}

\* s.includes(pat) at position i
IsAt(s, pat, i) ==
  /\ i + Len(pat) - 1 <= Len(s)
  /\ \A k \in 1..Len(pat) : s[i + k - 1] = pat[k]

\* String.prototype.replace with a string pattern: the first occurrence only.
Replace(s, pat, rep) ==
  IF \E i \in 1..Len(s) : IsAt(s, pat, i)
  THEN LET i == CHOOSE j \in 1..Len(s) :
                  IsAt(s, pat, j) /\ \A k \in 1..(j - 1) : ~IsAt(s, pat, k)
       IN SubSeq(s, 1, i - 1) \o rep \o SubSeq(s, i + Len(pat), Len(s))
  ELSE s

CoordinatorYear_OneStrip(role) ==
  Replace(role, <<"_","c","o","o","r","d","i","n","a","t","o","r">>, <<>>)

\* profile.role.replace('_coordinator', '').replace('_year', '')
CoordinatorYear(role) ==
  Replace(Replace(role, <<"_","c","o","o","r","d","i","n","a","t","o","r">>, <<>>),
          <<"_","y","e","a","r">>, <<>>)

\* Rows in the order a statement handles them (by id).
RECURSIVE SetToSeq(_)
SetToSeq(S) ==
  IF S = {} THEN <<>>
  ELSE LET m == CHOOSE r \in S : \A q \in S : r.id <= q.id
       IN <<m>> \o SetToSeq(S \ {m})

\* Sequence of the elements of a set of student ids, ordered by name.
RECURSIVE OrderByName(_)
OrderByName(S) ==
  IF S = {} THEN <<>>
  ELSE LET m == CHOOSE s \in S : \A t \in S : StudentRank(s) <= StudentRank(t)
       IN <<m>> \o OrderByName(S \ {m})

\* array.filter(x => x !== v)
RECURSIVE FilterOut(_, _)
FilterOut(seq, v) ==
  IF seq = <<>> THEN <<>>
  ELSE IF Head(seq) = v THEN FilterOut(Tail(seq), v)
       ELSE <<Head(seq)>> \o FilterOut(Tail(seq), v)

\* ------------------------------------------------------ row-level policies
\* The year test shared by the coordinator policies.
RoleCoversYear_AnyCoordinator(role, year) ==
  role \in {FIRST_YEAR_COORDINATOR, SECOND_YEAR_COORDINATOR,
            THIRD_YEAR_COORDINATOR, FOURTH_YEAR_COORDINATOR}

RoleCoversYear(role, year) ==
  \/ role = FIRST_YEAR_COORDINATOR /\ year = FIRST
  \/ role = SECOND_YEAR_COORDINATOR /\ year = SECOND
  \/ role = THIRD_YEAR_COORDINATOR /\ year = THIRD
  \/ role = FOURTH_YEAR_COORDINATOR /\ year = FOURTH

\* Policies on students: "Admin can manage all students" and
\* "Coordinators can view students of their year" (SELECT).
CanSelectStudent(p, s) ==
  /\ p \in Profiles
  /\ s \in studentsTbl
  /\ \/ ProfileRole(p) = ADMIN
     \/ RoleCoversYear(ProfileRole(p), StudentYear(s))

\* Policy "Coordinators can manage registrations for their year students"
\* (FOR ALL; its USING expression is also the check applied to new rows).
CanManageRegistration(p, student_id) ==
  /\ p \in Profiles
  /\ \E s \in studentsTbl :
       /\ CanSelectStudent(p, s)
       /\ s = student_id
       /\ \/ RoleCoversYear(ProfileRole(p), StudentYear(s))
          \/ ProfileRole(p) = ADMIN

\* Rows of registrations a caller can read: "Admin can view all
\* registrations" or the coordinator policy.
CanSelectRegistration(p, r) ==
  /\ p \in Profiles
  /\ \/ ProfileRole(p) = ADMIN
     \/ CanManageRegistration(p, r.student_id)

\* ------------------------------------------------------------ the ledger
\* UNIQUE(student_id, sport_id) for row i of a multi-row insert: no stored
\* row and no earlier row of the same statement has the pair.
UniqueOk_NoIndex(rows, i) == TRUE

UniqueOk(rows, i) ==
  /\ \A r \in registrations :
       ~(r.student_id = rows[i].student_id /\ r.sport_id = rows[i].sport_id)
  /\ \A j \in 1..(i - 1) :
       ~(rows[j].student_id = rows[i].student_id /\ rows[j].sport_id = rows[i].sport_id)

RowOk_WithinQuota(caller, rows, i) ==
  /\ CanManageRegistration(caller, rows[i].student_id)
  /\ UniqueOk(rows, i)
  /\ LET type == sports[rows[i].sport_id].type
         v == settings[IF type = GAME THEN "max_game_registrations"
                       ELSE "max_athletic_registrations"]
         held == {r \in registrations :
                    /\ r.student_id = rows[i].student_id
                    /\ r.status \in {PENDING, APPROVED}
                    /\ sports[r.sport_id].type = type}
     IN (v.present /\ v.limit > 0) => Cardinality(held) < v.limit

RowOk(caller, rows, i) ==
  CanManageRegistration(caller, rows[i].student_id) /\ UniqueOk(rows, i)

\* Error of supabase.from('registrations').insert(rows): "none", or the
\* SQLSTATE of the first row that fails (the policy is checked before the
\* row reaches the unique index).
InsertError(caller, rows) ==
  IF \A i \in 1..Len(rows) : RowOk(caller, rows, i) THEN "none"
  ELSE LET i == CHOOSE j \in 1..Len(rows) :
                  ~RowOk(caller, rows, j) /\ \A k \in 1..(j - 1) : RowOk(caller, rows, k)
       IN IF ~CanManageRegistration(caller, rows[i].student_id) THEN "42501"
          ELSE "23505"

\* The rows stored by a successful insert; ids are given in row order.
InsertedRows(rows) ==
  {[id |-> nextId + i - 1,
    student_id |-> rows[i].student_id,
    sport_id |-> rows[i].sport_id,
    status |-> rows[i].status,
    registered_by |-> rows[i].registered_by] : i \in 1..Len(rows)}

\* Trigger log_registration_activity -> log_activity(), one row per stored
\* or changed registration.
TriggerLog(user, op, id) ==
  [user_id |-> user,
   action |-> CASE op = "INSERT" -> "registration_created"
                [] op = "UPDATE" -> "registration_updated"
                [] op = "DELETE" -> "registration_deleted",
   details |-> [record_id |-> id]]

InsertTriggerLogs(rows) ==
  [i \in 1..Len(rows) |-> TriggerLog(rows[i].registered_by, "INSERT", nextId + i - 1)]

\* ------------------------------------------------- registration-limits.ts
\* settingsMap.<key>?.limit || 0
LimitOrZero(v) == IF ~v.present THEN 0 ELSE IF v.limit = 0 THEN 0 ELSE v.limit

\* fetchRegistrationLimits()
fetchRegistrationLimits ==
  [maxGameRegistrations |-> LimitOrZero(settings["max_game_registrations"]),
   maxAthleticRegistrations |-> LimitOrZero(settings["max_athletic_registrations"])]

\* The limit getStudentRegistrationInfo picks for a sport type.
LimitFor(limits, sportType) ==
  IF sportType = GAME THEN limits.maxGameRegistrations
  ELSE limits.maxAthleticRegistrations

\* The registrations query of getStudentRegistrationInfo, as seen by caller.
CountedRegistrations_AnyStatus(caller, studentIds) ==
  {r \in registrations :
     /\ CanSelectRegistration(caller, r)
     /\ r.student_id \in studentIds}

CountedRegistrations(caller, studentIds) ==
  {r \in registrations :
     /\ CanSelectRegistration(caller, r)
     /\ r.student_id \in studentIds
     /\ r.status \in {PENDING, APPROVED}}

\* The result array of getStudentRegistrationInfo, one entry per student row
\* returned by the students query.
StudentRegistrationInfo(studentRows, regRows, limit, sportType) ==
  {[id |-> s,
    currentCount |-> Cardinality({r \in regRows :
                        r.student_id = s /\ sports[r.sport_id].type = sportType}),
    limit |-> limit] : s \in studentRows}

\* getStudentsExceedingLimits / the filter of handleSubmit
getStudentsExceedingLimits_Above(info) == {s \in info : s.currentCount > s.limit}

getStudentsExceedingLimits(info) == {s \in info : s.currentCount >= s.limit}


\* ------------------------------------------------------------------- Init
SettingKeys == {"max_game_registrations", "max_athletic_registrations",
                "auto_approve_registrations"}

\* The rows of sports before any edit: no cap and no dates.
SportRow(sp) ==
  [type |-> IF sp = "a1" THEN ATHLETIC ELSE GAME,
   name |-> <<"n">>, description |-> <<"d">>, venue |-> <<"v">>,
   max_participants |-> [null |-> TRUE, value |-> 0],
   registration_deadline |-> 0, event_date |-> 0]

\* A key without a row has present = FALSE.
LimitValues == {[present |-> FALSE, limit |-> 0]} \cup
               {[present |-> TRUE, limit |-> n] : n \in 0..MaxLimit}
\* INSERT INTO public.settings ... ('max_athletic_registrations', '{"limit": 2}')
DefaultLimit == [present |-> TRUE, limit |-> 2]
FlagValues == {[present |-> FALSE, enabled |-> FALSE],
               [present |-> TRUE, enabled |-> TRUE],
               [present |-> TRUE, enabled |-> FALSE]}

NoClosure == [selectedStudents |-> <<>>, students |-> <<>>, limit |-> 0,
              studentRows |-> {}, info |-> {}, initialStatus |-> PENDING,
              reads |-> 0, error |-> FALSE]

\* Nothing fetched yet by the students page, the dashboard and the report;
\* no year chosen for the report; no registration removed on the page.
NoPageState == [students |-> {}, totalStudents |-> 0, totalRegistrations |-> 0,
                report |-> {}, selectedYear |-> <<"a", "l", "l">>, removed |-> 0]

NoCounts == [s \in {} |-> [games |-> 0, athletics |-> 0]]

\* Everything but the profiles table.
InitRest ==
  /\ studentsTbl = StudentIds
  /\ sports = [sp \in SportIds |-> SportRow(sp)]
  /\ registrations = {}
  /\ settings \in {[k \in SettingKeys |->
                       IF k = "max_game_registrations" THEN g
                       ELSE IF k = "max_athletic_registrations" THEN DefaultLimit
                       ELSE f] :
                     g \in LimitValues, f \in FlagValues}
  /\ activity_logs = <<>>
  /\ nextId = 1
  /\ profile = [x \in Sessions |-> NoUser]
  /\ page = [x \in Sessions |-> "none"]
  /\ sport = [x \in Sessions |-> [id |-> "g1", type |-> GAME]]
  /\ students = [x \in Sessions |-> <<>>]
  /\ selectedStudents = [x \in Sessions |-> <<>>]
  /\ existingRegistrations = [x \in Sessions |-> {}]
  /\ registrationLimits = [x \in Sessions |->
        [maxGameRegistrations |-> 0, maxAthleticRegistrations |-> 0]]
  /\ studentRegistrationCounts = [x \in Sessions |-> NoCounts]
  /\ loading = [x \in Sessions |-> TRUE]
  /\ registering = [x \in Sessions |-> FALSE]
  /\ showWarningDialog = [x \in Sessions |-> FALSE]
  /\ studentsExceedingLimits = [x \in Sessions |-> {}]
  /\ pc = [x \in Sessions |-> "idle"]
  /\ closure = [x \in Sessions |-> NoClosure]
  /\ toast = [x \in Sessions |-> "none"]
  /\ submits = 0
  /\ pageRegistrations = [x \in Sessions |-> {}]
  /\ pageState = [x \in Sessions |-> NoPageState]

Init ==
  /\ profiles = [p \in Profiles |-> SignupRole(p)]
  /\ InitRest

\* ------------------------------------------------ StudentRegistrationForm
\* The component is mounted for a principal and a sport; useEffect starts
\* fetchData, whose fetches close over the state of the render that started
\* them (students = []).
MountForm(x, u, sp) ==
  /\ page[x] = "none"
  /\ page' = [page EXCEPT ![x] = "form"]
  /\ profile' = [profile EXCEPT ![x] = u]
  /\ sport' = [sport EXCEPT ![x] = [id |-> sp, type |-> sports[sp].type]]
  /\ closure' = [closure EXCEPT ![x] = [NoClosure EXCEPT !.students = students[x]]]
  /\ UNCHANGED <<dbVars, students, selectedStudents, existingRegistrations,
                 registrationLimits, studentRegistrationCounts, loading,
                 registering, showWarningDialog, studentsExceedingLimits, pc,
                 toast, pageVars, submits>>

FetchedStudents_AdminLoadsAll(x) ==
  OrderByName({s \in studentsTbl :
     /\ CanSelectStudent(profile[x], s)
     /\ ProfileRole(profile[x]) # ADMIN =>
          StudentYear(s) = CoordinatorYear(ProfileRole(profile[x]))})

\* fetchStudents: nothing for an admin, else the students of the year
\* derived from the role, ordered by name.
FetchedStudents(x) ==
  IF ProfileRole(profile[x]) = ADMIN THEN students[x]
  ELSE LET year == CoordinatorYear(ProfileRole(profile[x]))
       IN OrderByName({s \in studentsTbl :
             CanSelectStudent(profile[x], s) /\ StudentYear(s) = year})

\* fetchExistingRegistrations: the rows of the sport the caller can read.
FetchedExistingRegistrations(x) ==
  {[student_id |-> r.student_id, sport_id |-> r.sport_id, status |-> r.status] :
     r \in {q \in registrations :
              CanSelectRegistration(profile[x], q) /\ q.sport_id = sport[x].id}}

\* counts[student.id] of fetchStudentRegistrationCounts
CountsFor(caller, studentSeq) ==
  LET ids == Range(studentSeq)
      rows == CountedRegistrations(caller, ids)
  IN [s \in ids |->
        [games |-> Cardinality({r \in rows :
                      r.student_id = s /\ sports[r.sport_id].type = GAME}),
         athletics |-> Cardinality({r \in rows :
                      r.student_id = s /\ sports[r.sport_id].type # GAME})]]

\* fetchStudentRegistrationCounts: returns at once when the students of the
\* render that started fetchData are empty.
FetchedCounts(x) ==
  IF Len(closure[x].students) = 0 THEN studentRegistrationCounts[x]
  ELSE CountsFor(profile[x], closure[x].students)

\* fetchData: the four fetches of Promise.all are answered, then
\* finally { setLoading(false) }.
fetchData(x) ==
  /\ page[x] = "form"
  /\ loading[x]
  /\ students' = [students EXCEPT ![x] = FetchedStudents(x)]
  /\ existingRegistrations' = [existingRegistrations EXCEPT ![x] =
        FetchedExistingRegistrations(x)]
  /\ registrationLimits' = [registrationLimits EXCEPT ![x] = fetchRegistrationLimits]
  /\ studentRegistrationCounts' = [studentRegistrationCounts EXCEPT ![x] = FetchedCounts(x)]
  /\ loading' = [loading EXCEPT ![x] = FALSE]
  /\ UNCHANGED <<dbVars, profile, page, sport, selectedStudents, registering,
                 showWarningDialog, studentsExceedingLimits, pc, closure,
                 toast, pageVars, submits>>

\* useEffect(() => { fetchData(); }, [profile, sport.id]) runs again: the
\* auth provider has replaced the profile object (same principal).  The
\* fetches of this run close over the state of the current render.
useEffectAgain(x) ==
  /\ page[x] = "form"
  /\ ~loading[x]
  /\ loading' = [loading EXCEPT ![x] = TRUE]
  /\ closure' = [closure EXCEPT ![x].students = students[x]]
  /\ UNCHANGED <<dbVars, profile, page, sport, students, selectedStudents,
                 existingRegistrations, registrationLimits,
                 studentRegistrationCounts, registering, showWarningDialog,
                 studentsExceedingLimits, pc, toast, pageVars, submits>>

isStudentAlreadyRegistered(x, studentId) ==
  \E reg \in existingRegistrations[x] : reg.student_id = studentId

canStudentRegister_AtLimitAllowed(x, studentId) ==
  IF isStudentAlreadyRegistered(x, studentId) THEN FALSE
  ELSE IF studentId \notin DOMAIN studentRegistrationCounts[x] THEN TRUE
  ELSE LET counts == studentRegistrationCounts[x][studentId]
           limit == LimitFor(registrationLimits[x], sport[x].type)
           currentCount == IF sport[x].type = GAME THEN counts.games
                           ELSE counts.athletics
       IN currentCount <= limit

canStudentRegister(x, studentId) ==
  IF isStudentAlreadyRegistered(x, studentId) THEN FALSE
  ELSE IF studentId \notin DOMAIN studentRegistrationCounts[x] THEN TRUE
  ELSE LET counts == studentRegistrationCounts[x][studentId]
           limit == LimitFor(registrationLimits[x], sport[x].type)
           currentCount == IF sport[x].type = GAME THEN counts.games
                           ELSE counts.athletics
       IN currentCount < limit

\* filteredStudents.filter(student => canStudentRegister(student.id))
eligibleStudents(x) ==
  SelectSeq(students[x], LAMBDA s : canStudentRegister(x, s))

\* The student list and the buttons are rendered for a coordinator once
\* loading is over; the warning dialog is modal.  A running handler reads
\* the selection from its closure, so a click on a student card while a
\* handler awaits commutes with the handler's steps: the model takes such
\* clicks while the form is idle or while the quota check awaits its last
\* query, and the select-all / clear-all buttons while the form is idle.
FormUsable(x) ==
  /\ page[x] = "form"
  /\ ProfileRole(profile[x]) # ADMIN
  /\ ~loading[x]
  /\ ~showWarningDialog[x]

handleStudentToggle(x, studentId) ==
  /\ FormUsable(x)
  /\ pc[x] \in {"idle", "info_registrations"}
  /\ studentId \in Range(students[x])
  /\ canStudentRegister(x, studentId)
  /\ selectedStudents' = [selectedStudents EXCEPT ![x] =
        IF studentId \in Range(@) THEN FilterOut(@, studentId)
        ELSE Append(@, studentId)]
  /\ UNCHANGED <<dbVars, profile, page, sport, students,
                 existingRegistrations, registrationLimits,
                 studentRegistrationCounts, loading, registering,
                 showWarningDialog, studentsExceedingLimits, pc, closure,
                 toast, pageVars, submits>>

SelectAll(x) ==
  /\ FormUsable(x)
  /\ pc[x] = "idle"
  /\ Len(eligibleStudents(x)) > 0
  /\ selectedStudents' = [selectedStudents EXCEPT ![x] = eligibleStudents(x)]
  /\ UNCHANGED <<dbVars, profile, page, sport, students,
                 existingRegistrations, registrationLimits,
                 studentRegistrationCounts, loading, registering,
                 showWarningDialog, studentsExceedingLimits, pc, closure,
                 toast, pageVars, submits>>

ClearAll(x) ==
  /\ FormUsable(x)
  /\ pc[x] = "idle"
  /\ Len(eligibleStudents(x)) > 0
  /\ selectedStudents' = [selectedStudents EXCEPT ![x] = <<>>]
  /\ UNCHANGED <<dbVars, profile, page, sport, students,
                 existingRegistrations, registrationLimits,
                 studentRegistrationCounts, loading, registering,
                 showWarningDialog, studentsExceedingLimits, pc, closure,
                 toast, pageVars, submits>>

\* ---------------------------------------------------------- handleSubmit
\* if (studentIds.length === 0) return [] : where getStudentRegistrationInfo
\* stands after its first line, back with its caller or at its first query.
InfoStart_NoShortcut(studentIds) == "info_limits"

InfoStart(studentIds) == IF Len(studentIds) = 0 THEN "idle" ELSE "info_limits"

handleSubmit_NoEmptyCheck(x) ==
  /\ FormUsable(x)
  /\ pc[x] = "idle"
  /\ submits < MaxSubmits
  /\ submits' = submits + 1
  /\ pc' = [pc EXCEPT ![x] = "info_limits"]
  /\ closure' = [closure EXCEPT ![x].selectedStudents = selectedStudents[x]]
  /\ UNCHANGED <<dbVars, profile, page, sport, students, selectedStudents,
                 existingRegistrations, registrationLimits,
                 studentRegistrationCounts, loading, registering,
                 showWarningDialog, studentsExceedingLimits, toast,
                 pageVars>>

\* One handler runs at a time in a form.  handleSubmit keeps the
\* selectedStudents of the render it was called from.
handleSubmit(x) ==
  /\ FormUsable(x)
  /\ pc[x] = "idle"
  /\ submits < MaxSubmits
  /\ submits' = submits + 1
  /\ IF Len(selectedStudents[x]) = 0
     THEN /\ toast' = [toast EXCEPT ![x] = "No Students Selected"]
          /\ UNCHANGED <<pc, closure>>
     ELSE /\ pc' = [pc EXCEPT ![x] = InfoStart(selectedStudents[x])]
          /\ closure' = [closure EXCEPT ![x].selectedStudents = selectedStudents[x],
                                        ![x].reads = 0,
                                        ![x].error = FALSE]
          /\ UNCHANGED toast
  /\ UNCHANGED <<dbVars, profile, page, sport, students, selectedStudents,
                 existingRegistrations, registrationLimits,
                 studentRegistrationCounts, loading, registering,
                 showWarningDialog, studentsExceedingLimits,
                 pageVars>>

\* The Register button, disabled while registering or with nothing selected.
RegisterButton(x) ==
  /\ ~(registering[x] \/ Len(selectedStudents[x]) = 0)
  /\ handleSubmit(x)

\* getStudentRegistrationInfo: const limits = await fetchRegistrationLimits()
infoLimits(x) ==
  /\ pc[x] = "info_limits"
  /\ closure' = [closure EXCEPT
        ![x].limit = LimitFor(fetchRegistrationLimits, sport[x].type),
        ![x].reads = @ + 1]
  /\ pc' = [pc EXCEPT ![x] = "info_students"]
  /\ UNCHANGED <<dbVars, profile, page, sport, students, selectedStudents,
                 existingRegistrations, registrationLimits,
                 studentRegistrationCounts, loading, registering,
                 showWarningDialog, studentsExceedingLimits, toast,
                 pageVars, submits>>

infoStudents_PerStudent(x) ==
  /\ pc[x] = "info_students"
  /\ closure' = [closure EXCEPT
        ![x].studentRows =
           {s \in studentsTbl : CanSelectStudent(profile[x], s)
                                 /\ s \in Range(closure[x].selectedStudents)},
        ![x].reads = @ + Len(closure[x].selectedStudents)]
  /\ pc' = [pc EXCEPT ![x] = "info_registrations"]
  /\ UNCHANGED <<dbVars, profile, page, sport, students, selectedStudents,
                 existingRegistrations, registrationLimits,
                 studentRegistrationCounts, loading, registering,
                 showWarningDialog, studentsExceedingLimits, toast,
                 pageVars, submits>>

\* getStudentRegistrationInfo: the students query, one for all the ids
infoStudents(x) ==
  /\ pc[x] = "info_students"
  /\ closure' = [closure EXCEPT
        ![x].studentRows =
           {s \in studentsTbl : CanSelectStudent(profile[x], s)
                                 /\ s \in Range(closure[x].selectedStudents)},
        ![x].reads = @ + 1]
  /\ pc' = [pc EXCEPT ![x] = "info_registrations"]
  /\ UNCHANGED <<dbVars, profile, page, sport, students, selectedStudents,
                 existingRegistrations, registrationLimits,
                 studentRegistrationCounts, loading, registering,
                 showWarningDialog, studentsExceedingLimits, toast,
                 pageVars, submits>>

\* The result of getStudentRegistrationInfo once its registrations query
\* has been answered.
getStudentRegistrationInfo(x) ==
  StudentRegistrationInfo(closure[x].studentRows,
                          CountedRegistrations(profile[x], Range(closure[x].selectedStudents)),
                          closure[x].limit, sport[x].type)

\* getStudentRegistrationInfo: the registrations query, then the filter of
\* handleSubmit; either the warning dialog opens or performRegistration
\* starts (setRegistering(true)).
infoRegistrations(x) ==
  /\ pc[x] = "info_registrations"
  /\ page[x] = "form"
  /\ LET studentsExceeding == getStudentsExceedingLimits(getStudentRegistrationInfo(x))
     IN IF studentsExceeding # {}
        THEN /\ studentsExceedingLimits' = [studentsExceedingLimits EXCEPT ![x] = studentsExceeding]
             /\ showWarningDialog' = [showWarningDialog EXCEPT ![x] = TRUE]
             /\ pc' = [pc EXCEPT ![x] = "idle"]
             /\ UNCHANGED registering
        ELSE /\ registering' = [registering EXCEPT ![x] = TRUE]
             /\ pc' = [pc EXCEPT ![x] = "reg_settings"]
             /\ UNCHANGED <<studentsExceedingLimits, showWarningDialog>>
  /\ closure' = [closure EXCEPT ![x].reads = @ + 1]
  /\ UNCHANGED <<dbVars, profile, page, sport, students, selectedStudents,
                 existingRegistrations, registrationLimits,
                 studentRegistrationCounts, loading, toast,
                 pageVars, submits>>

infoError_NoReturn(x) ==
  /\ pc[x] \in {"info_limits", "info_students", "info_registrations"}
  /\ page[x] = "form"
  /\ closure' = [closure EXCEPT ![x].reads = @ + 1, ![x].error = TRUE]
  /\ toast' = [toast EXCEPT ![x] = "Failed to check registration limits"]
  /\ registering' = [registering EXCEPT ![x] = TRUE]
  /\ pc' = [pc EXCEPT ![x] = "reg_settings"]
  /\ UNCHANGED <<dbVars, profile, page, sport, students, selectedStudents,
                 existingRegistrations, registrationLimits,
                 studentRegistrationCounts, loading,
                 showWarningDialog, studentsExceedingLimits,
                 pageVars, submits>>

\* One of the three queries of getStudentRegistrationInfo is answered with
\* an error: the function throws it, and the catch of handleSubmit shows the
\* toast and returns.
infoError(x) ==
  /\ pc[x] \in {"info_limits", "info_students", "info_registrations"}
  /\ page[x] = "form"
  /\ closure' = [closure EXCEPT ![x].reads = @ + 1, ![x].error = TRUE]
  /\ toast' = [toast EXCEPT ![x] = "Failed to check registration limits"]
  /\ pc' = [pc EXCEPT ![x] = "idle"]
  /\ UNCHANGED <<dbVars, profile, page, sport, students, selectedStudents,
                 existingRegistrations, registrationLimits,
                 studentRegistrationCounts, loading, registering,
                 showWarningDialog, studentsExceedingLimits,
                 pageVars, submits>>

\* ---------------------------------------------------- performRegistration
\* autoApproveSetting?.value?.enabled || false
autoApprove_IfStored == settings["auto_approve_registrations"].present

autoApprove == settings["auto_approve_registrations"].present
               /\ settings["auto_approve_registrations"].enabled

performSettings(x) ==
  /\ pc[x] = "reg_settings"
  /\ closure' = [closure EXCEPT ![x].initialStatus =
                    IF autoApprove THEN APPROVED ELSE PENDING]
  /\ pc' = [pc EXCEPT ![x] = "reg_insert"]
  /\ UNCHANGED <<dbVars, profile, page, sport, students, selectedStudents,
                 existingRegistrations, registrationLimits,
                 studentRegistrationCounts, loading, registering,
                 showWarningDialog, studentsExceedingLimits, toast,
                 pageVars, submits>>

\* selectedStudents.map(studentId => ({...}))
RegistrationRows(x) ==
  [i \in 1..Len(closure[x].selectedStudents) |->
     [student_id |-> closure[x].selectedStudents[i],
      sport_id |-> sport[x].id,
      registered_by |-> profile[x],
      status |-> closure[x].initialStatus]]

performInsert_NoThrow(x) ==
  /\ pc[x] = "reg_insert"
  /\ LET rows == RegistrationRows(x)
     IN IF InsertError(profile[x], rows) = "none"
        THEN /\ nextId + Len(rows) - 1 <= MaxRegId
             /\ Len(activity_logs) + Len(rows) + 1 <= MaxLog
             /\ registrations' = registrations \cup InsertedRows(rows)
             /\ nextId' = nextId + Len(rows)
             /\ activity_logs' = activity_logs \o InsertTriggerLogs(rows)
        ELSE /\ Len(activity_logs) + 1 <= MaxLog
             /\ UNCHANGED <<registrations, nextId, activity_logs>>
  /\ pc' = [pc EXCEPT ![x] = "reg_log"]
  /\ UNCHANGED <<profiles, studentsTbl, sports, settings, profile, page, sport, students,
                 selectedStudents, existingRegistrations, registrationLimits,
                 studentRegistrationCounts, loading, showWarningDialog,
                 studentsExceedingLimits, registering, closure, toast,
                 pageVars, submits>>

performInsert_RowByRow(x) ==
  /\ pc[x] = "reg_insert"
  /\ LET rows == RegistrationRows(x)
         ok == {i \in 1..Len(rows) :
                  /\ CanManageRegistration(profile[x], rows[i].student_id)
                  /\ \A r \in registrations :
                        ~(r.student_id = rows[i].student_id /\ r.sport_id = rows[i].sport_id)}
         stored == {r \in InsertedRows(rows) : r.id - nextId + 1 \in ok}
         storedSeq == SetToSeq(stored)
     IN /\ nextId + Len(rows) - 1 <= MaxRegId
        /\ Len(activity_logs) + Len(rows) + 1 <= MaxLog
        /\ registrations' = registrations \cup stored
        /\ nextId' = nextId + Len(rows)
        /\ activity_logs' = activity_logs \o
              [i \in 1..Len(storedSeq) |->
                 TriggerLog(storedSeq[i].registered_by, "INSERT", storedSeq[i].id)]
        /\ IF Cardinality(ok) = Len(rows)
           THEN /\ pc' = [pc EXCEPT ![x] = "reg_log"]
                /\ UNCHANGED <<registering, closure, toast>>
           ELSE /\ registering' = [registering EXCEPT ![x] = FALSE]
                /\ pc' = [pc EXCEPT ![x] = "idle"]
                /\ closure' = [closure EXCEPT ![x] = NoClosure]
                /\ toast' = [toast EXCEPT ![x] = "Failed to register students"]
  /\ UNCHANGED <<profiles, studentsTbl, sports, settings, profile, page, sport, students,
                 selectedStudents, existingRegistrations, registrationLimits,
                 studentRegistrationCounts, loading, showWarningDialog,
                 studentsExceedingLimits, pageVars, submits>>

insertError_NoFinally(x) ==
  /\ pc[x] = "reg_insert"
  /\ pc' = [pc EXCEPT ![x] = "idle"]
  /\ closure' = [closure EXCEPT ![x] = NoClosure]
  /\ toast' = [toast EXCEPT ![x] = "Failed to register students"]
  /\ UNCHANGED <<dbVars, profile, page, sport, students,
                 selectedStudents, existingRegistrations, registrationLimits,
                 studentRegistrationCounts, loading, showWarningDialog,
                 studentsExceedingLimits, registering, pageVars, submits>>

\* The insert is answered with an error of the storage service, nothing
\* stored: if (error) throw error, then the catch and finally blocks.
insertError(x) ==
  /\ pc[x] = "reg_insert"
  /\ registering' = [registering EXCEPT ![x] = FALSE]
  /\ pc' = [pc EXCEPT ![x] = "idle"]
  /\ closure' = [closure EXCEPT ![x] = NoClosure]
  /\ toast' = [toast EXCEPT ![x] = "Failed to register students"]
  /\ UNCHANGED <<dbVars, profile, page, sport, students,
                 selectedStudents, existingRegistrations, registrationLimits,
                 studentRegistrationCounts, loading, showWarningDialog,
                 studentsExceedingLimits, pageVars, submits>>

\* supabase.from('registrations').insert(registrations): one statement,
\* stored as a whole or not at all; on error the catch and finally blocks run.
performInsert(x) ==
  /\ pc[x] = "reg_insert"
  /\ LET rows == RegistrationRows(x)
         error == InsertError(profile[x], rows)
     IN IF error = "none"
        THEN /\ nextId + Len(rows) - 1 <= MaxRegId
             /\ Len(activity_logs) + Len(rows) + 1 <= MaxLog
             /\ registrations' = registrations \cup InsertedRows(rows)
             /\ nextId' = nextId + Len(rows)
             /\ activity_logs' = activity_logs \o InsertTriggerLogs(rows)
             /\ pc' = [pc EXCEPT ![x] = "reg_log"]
             /\ UNCHANGED <<registering, closure, toast>>
        ELSE /\ registering' = [registering EXCEPT ![x] = FALSE]
             /\ pc' = [pc EXCEPT ![x] = "idle"]
             /\ closure' = [closure EXCEPT ![x] = NoClosure]
             /\ toast' = [toast EXCEPT ![x] = "Failed to register students"]
             /\ UNCHANGED <<registrations, nextId, activity_logs>>
  /\ UNCHANGED <<profiles, studentsTbl, sports, settings, profile, page, sport, students,
                 selectedStudents, existingRegistrations, registrationLimits,
                 studentRegistrationCounts, loading, showWarningDialog,
                 studentsExceedingLimits, pageVars, submits>>

\* supabase.from('activity_logs').insert({...}), the success toast,
\* finally { setRegistering(false) } and onSuccess(), with which the dialog
\* that hosts the form closes: the form is unmounted and its state is gone.
performLog(x) ==
  /\ pc[x] = "reg_log"
  /\ activity_logs' = Append(activity_logs,
        [user_id |-> profile[x],
         action |-> "students_registered",
         details |-> [sport_id |-> sport[x].id,
                      student_count |-> Len(closure[x].selectedStudents),
                      students |-> closure[x].selectedStudents]])
  /\ toast' = [toast EXCEPT ![x] = "Successfully registered"]
  /\ page' = [page EXCEPT ![x] = "none"]
  /\ sport' = [sport EXCEPT ![x] = [id |-> "g1", type |-> GAME]]
  /\ students' = [students EXCEPT ![x] = <<>>]
  /\ selectedStudents' = [selectedStudents EXCEPT ![x] = <<>>]
  /\ existingRegistrations' = [existingRegistrations EXCEPT ![x] = {}]
  /\ registrationLimits' = [registrationLimits EXCEPT ![x] =
        [maxGameRegistrations |-> 0, maxAthleticRegistrations |-> 0]]
  /\ studentRegistrationCounts' = [studentRegistrationCounts EXCEPT ![x] = NoCounts]
  /\ loading' = [loading EXCEPT ![x] = TRUE]
  /\ registering' = [registering EXCEPT ![x] = FALSE]
  /\ studentsExceedingLimits' = [studentsExceedingLimits EXCEPT ![x] = {}]
  /\ pc' = [pc EXCEPT ![x] = "idle"]
  /\ closure' = [closure EXCEPT ![x] = NoClosure]
  /\ UNCHANGED <<profiles, studentsTbl, sports, registrations, settings, nextId,
                 profile, showWarningDialog, pageVars, submits>>

\* The dialog's confirm button: performRegistration of the current render,
\* which reads the current selectedStudents.
handleWarningConfirm(x) ==
  /\ page[x] = "form"
  /\ showWarningDialog[x]
  /\ pc[x] = "idle"
  /\ showWarningDialog' = [showWarningDialog EXCEPT ![x] = FALSE]
  /\ registering' = [registering EXCEPT ![x] = TRUE]
  /\ closure' = [closure EXCEPT ![x].selectedStudents = selectedStudents[x]]
  /\ pc' = [pc EXCEPT ![x] = "reg_settings"]
  /\ UNCHANGED <<dbVars, profile, page, sport, students, selectedStudents,
                 existingRegistrations, registrationLimits,
                 studentRegistrationCounts, loading, studentsExceedingLimits,
                 toast, pageVars, submits>>

handleWarningCancel(x) ==
  /\ page[x] = "form"
  /\ showWarningDialog[x]
  /\ pc[x] = "idle"
  /\ showWarningDialog' = [showWarningDialog EXCEPT ![x] = FALSE]
  /\ studentsExceedingLimits' = [studentsExceedingLimits EXCEPT ![x] = {}]
  /\ closure' = [closure EXCEPT ![x] = NoClosure]
  /\ UNCHANGED <<dbVars, profile, page, sport, students, selectedStudents,
                 existingRegistrations, registrationLimits,
                 studentRegistrationCounts, loading, registering, pc, toast,
                 pageVars, submits>>

\* ------------------------------------------------------ Registrations page
\* The rows fetchRegistrations puts in the page state.
VisibleRegistrations(u) ==
  {r \in registrations :
     /\ CanSelectRegistration(u, r)
     /\ CanSelectStudent(u, r.student_id)
     /\ ProfileRole(u) # ADMIN =>
          StudentYear(r.student_id) = CoordinatorYear(ProfileRole(u))}

\* The page is mounted for a principal; useEffect runs fetchRegistrations.
MountRegistrations(x, u) ==
  /\ page[x] = "none"
  /\ page' = [page EXCEPT ![x] = "registrations"]
  /\ profile' = [profile EXCEPT ![x] = u]
  /\ pageRegistrations' = [pageRegistrations EXCEPT ![x] = VisibleRegistrations(u)]
  /\ UNCHANGED <<dbVars, formVars, pageState, submits>>

\* .update({ status: newStatus }).eq('id', registrationId): the rows the
\* caller's policy lets it update.
UpdatedRows(caller, registrationId) ==
  {r \in registrations : r.id = registrationId
                          /\ CanManageRegistration(caller, r.student_id)}

\* The Approve / Reject buttons are rendered for an admin on rows the page
\* shows as pending.  The handler updates the row, logs, and refetches.
updateRegistrationStatus(x, registrationId, newStatus) ==
  /\ page[x] = "registrations"
  /\ ProfileRole(profile[x]) = ADMIN
  /\ \E r \in pageRegistrations[x] : r.id = registrationId /\ r.status = PENDING
  /\ LET hit == UpdatedRows(profile[x], registrationId)
         after == (registrations \ hit) \cup
                  {[r EXCEPT !.status = newStatus] : r \in hit}
         hitSeq == SetToSeq(hit)
     IN /\ Len(activity_logs) + Len(hitSeq) + 1 <= MaxLog
        /\ registrations' = after
        /\ activity_logs' =
             (activity_logs \o
              [i \in 1..Len(hitSeq) |->
                 TriggerLog(hitSeq[i].registered_by, "UPDATE", hitSeq[i].id)]) \o
             <<[user_id |-> profile[x],
                action |-> "registration_status_updated",
                details |-> [registration_id |-> registrationId,
                             new_status |-> newStatus]]>>
        /\ pageRegistrations' = [pageRegistrations EXCEPT ![x] =
             {r \in after :
                /\ CanSelectRegistration(profile[x], r)
                /\ CanSelectStudent(profile[x], r.student_id)}]
  /\ UNCHANGED <<profiles, studentsTbl, sports, settings, nextId, profile, page,
                 formVars, pageState, submits>>

\* .delete().eq('id', registrationId): the rows the caller's policy lets it
\* delete.
DeletedRows_AdminOnly(caller, registrationId) ==
  {r \in registrations : r.id = registrationId /\ ProfileRole(caller) = ADMIN}

DeletedRows(caller, registrationId) ==
  {r \in registrations : r.id = registrationId
                          /\ CanManageRegistration(caller, r.student_id)}

\* The remove button is rendered on every row the page shows, for every
\* role; the user confirms.  The handler deletes the row, the trigger logs
\* each deleted row (NEW is null, so without a user), the toast names the
\* registration, and the page refetches.
deleteRegistration(x, registrationId) ==
  /\ page[x] = "registrations"
  /\ \E r \in pageRegistrations[x] : r.id = registrationId
  /\ LET hit == DeletedRows(profile[x], registrationId)
         hitSeq == SetToSeq(hit)
     IN /\ Len(activity_logs) + Len(hitSeq) <= MaxLog
        /\ registrations' = registrations \ hit
        /\ activity_logs' = activity_logs \o
              [i \in 1..Len(hitSeq) |-> TriggerLog(NoUser, "DELETE", hitSeq[i].id)]
        /\ pageRegistrations' = [pageRegistrations EXCEPT ![x] =
              {r \in registrations \ hit :
                 /\ CanSelectRegistration(profile[x], r)
                 /\ CanSelectStudent(profile[x], r.student_id)
                 /\ ProfileRole(profile[x]) # ADMIN =>
                      StudentYear(r.student_id) = CoordinatorYear(ProfileRole(profile[x]))}]
  /\ toast' = [toast EXCEPT ![x] = "Registration Removed"]
  /\ pageState' = [pageState EXCEPT ![x].removed = registrationId]
  /\ UNCHANGED <<profiles, studentsTbl, sports, settings, nextId, profile, page,
                 sport, students, selectedStudents, existingRegistrations,
                 registrationLimits, studentRegistrationCounts, loading,
                 registering, showWarningDialog, studentsExceedingLimits,
                 pc, closure, submits>>

\* ------------------------------------ students page, dashboard and report
\* fetchStudents: the rows the students page puts in its state.
StudentsPageRows(u) ==
  {s \in studentsTbl :
     /\ CanSelectStudent(u, s)
     /\ ProfileRole(u) # ADMIN => StudentYear(s) = CoordinatorYear(ProfileRole(u))}

MountStudents(x, u) ==
  /\ page[x] = "none"
  /\ page' = [page EXCEPT ![x] = "students"]
  /\ profile' = [profile EXCEPT ![x] = u]
  /\ pageState' = [pageState EXCEPT ![x].students = StudentsPageRows(u)]
  /\ UNCHANGED <<dbVars, formVars, pageRegistrations, submits>>

\* .from('students').delete().eq('id', studentId): the rows the caller's
\* policy ("Admin can manage all students") lets it delete.
DeletedStudents(caller, studentId) ==
  {s \in studentsTbl : s = studentId /\ ProfileRole(caller) = ADMIN}

RegistrationsAfterStudentDelete_NoCascade(gone) == registrations

\* student_id ... REFERENCES public.students(id) ON DELETE CASCADE: the
\* registrations of a deleted student go with the student's row.
RegistrationsAfterStudentDelete(gone) ==
  {r \in registrations : r.student_id \notin gone}

\* The delete button of a student card, rendered for an admin; the user
\* confirms.  The statement deletes the student and, by the cascade, the
\* student's registrations, each logged by the trigger (NEW is null, so
\* without a user); then the handler logs, toasts and refetches the list.
handleDeleteStudent(x, studentId) ==
  /\ page[x] = "students"
  /\ ProfileRole(profile[x]) = ADMIN
  /\ studentId \in pageState[x].students
  /\ LET gone == DeletedStudents(profile[x], studentId)
         after == RegistrationsAfterStudentDelete(gone)
         hitSeq == SetToSeq({r \in registrations : r.student_id \in gone})
     IN /\ Len(activity_logs) + Len(hitSeq) + 1 <= MaxLog
        /\ studentsTbl' = studentsTbl \ gone
        /\ registrations' = after
        /\ activity_logs' =
             (activity_logs \o
              [i \in 1..Len(hitSeq) |-> TriggerLog(NoUser, "DELETE", hitSeq[i].id)]) \o
             <<[user_id |-> profile[x],
                action |-> "student_deleted",
                details |-> [student_id |-> studentId]]>>
        /\ pageState' = [pageState EXCEPT ![x].students =
             {s \in StudentsPageRows(profile[x]) : s \notin gone}]
  /\ toast' = [toast EXCEPT ![x] = "Student deleted successfully"]
  /\ UNCHANGED <<profiles, sports, settings, nextId, profile, page,
                 sport, students, selectedStudents, existingRegistrations,
                 registrationLimits, studentRegistrationCounts, loading,
                 registering, showWarningDialog, studentsExceedingLimits,
                 pc, closure, pageRegistrations, submits>>

\* fetchStats: the students count is filtered by year for a coordinator, the
\* registrations count is the count of the rows the caller may select.
MountDashboard(x, u) ==
  /\ page[x] = "none"
  /\ page' = [page EXCEPT ![x] = "dashboard"]
  /\ profile' = [profile EXCEPT ![x] = u]
  /\ pageState' = [pageState EXCEPT
        ![x].totalStudents = Cardinality(StudentsPageRows(u)),
        ![x].totalRegistrations =
           Cardinality({r \in registrations : CanSelectRegistration(u, r)})]
  /\ UNCHANGED <<dbVars, formVars, pageRegistrations, submits>>

\* 'all' and the years the admin's year filter offers in the model.
ALL == <<"a", "l", "l">>
YearFilters == {ALL, FIRST, SECOND}

\* fetchRegistrationData(yearFilter)
ReportRows(u, yearFilter) ==
  {r \in registrations :
     /\ CanSelectRegistration(u, r)
     /\ CanSelectStudent(u, r.student_id)
     /\ IF ProfileRole(u) # ADMIN
        THEN StudentYear(r.student_id) = CoordinatorYear(ProfileRole(u))
        ELSE yearFilter # ALL => StudentYear(r.student_id) = yearFilter}

\* The download button: handleDownloadCoordinator for a coordinator,
\* handleDownloadAll or handleDownloadByYear(selectedYear) for an admin.
DownloadReport(x, u, yearFilter) ==
  /\ page[x] = "none"
  /\ ProfileRole(u) # ADMIN => yearFilter = ALL
  /\ page' = [page EXCEPT ![x] = "report"]
  /\ profile' = [profile EXCEPT ![x] = u]
  /\ pageState' = [pageState EXCEPT ![x].selectedYear = yearFilter,
                                    ![x].report = ReportRows(u, yearFilter)]
  /\ UNCHANGED <<dbVars, formVars, pageRegistrations, submits>>

\* The user leaves the page; its state is gone.
LeavePage(x) ==
  /\ page[x] \in {"registrations", "students", "dashboard", "report"}
  /\ page' = [page EXCEPT ![x] = "none"]
  /\ profile' = [profile EXCEPT ![x] = NoUser]
  /\ pageRegistrations' = [pageRegistrations EXCEPT ![x] = {}]
  /\ pageState' = [pageState EXCEPT ![x] = NoPageState]
  /\ toast' = [toast EXCEPT ![x] = "none"]
  /\ UNCHANGED <<dbVars, sport, students, selectedStudents,
                 existingRegistrations, registrationLimits,
                 studentRegistrationCounts, loading, registering,
                 showWarningDialog, studentsExceedingLimits, pc, closure,
                 submits>>

\* ---------------------------------------------------------- direct request
\* The insert of performRegistration sent with the caller's credentials for
\* a list of students that did not come from the form's student list (a
\* second client, a script, a form opened before the data changed): the
\* policies of the table are all that stands between such a request and the
\* ledger.
ApiInputs == {<<"c1", <<"s1">>, "g1">>, <<"c1", <<"s3">>, "g1">>,
              <<"c1", <<"s1", "s2">>, "g1">>, <<"c1", <<"s1", "s3">>, "g1">>,
              <<"c1", <<"s3", "s1">>, "g1">>, <<"c1", <<"s1", "s2">>, "a1">>,
              <<"c2", <<"s3">>, "g1">>, <<"c2", <<"s3", "s1">>, "g1">>,
              <<"admin", <<"s1", "s3">>, "g2">>}

ApiRequest(x, u, studentSeq, sp) ==
  /\ page[x] \in {"none", "api"}
  /\ pc[x] = "idle"
  /\ submits < MaxSubmits
  /\ submits' = submits + 1
  /\ page' = [page EXCEPT ![x] = "api"]
  /\ profile' = [profile EXCEPT ![x] = u]
  /\ sport' = [sport EXCEPT ![x] = [id |-> sp, type |-> sports[sp].type]]
  /\ selectedStudents' = [selectedStudents EXCEPT ![x] = studentSeq]
  /\ closure' = [closure EXCEPT ![x] =
        [NoClosure EXCEPT !.selectedStudents = studentSeq]]
  /\ pc' = [pc EXCEPT ![x] = "reg_settings"]
  /\ UNCHANGED <<dbVars, students, existingRegistrations,
                 registrationLimits, studentRegistrationCounts, loading,
                 registering, showWarningDialog, studentsExceedingLimits,
                 toast, pageVars>>

\* The update statement of updateRegistrationStatus sent with the caller's
\* credentials: the rows the policy lets the caller update are changed, each
\* firing the trigger; a statement that matches no row is no error.
ApiUpdateStatus(x, u, registrationId, newStatus) ==
  /\ page[x] \in {"none", "api"}
  /\ pc[x] = "idle"
  /\ submits < MaxSubmits
  /\ submits' = submits + 1
  /\ page' = [page EXCEPT ![x] = "api"]
  /\ profile' = [profile EXCEPT ![x] = u]
  /\ LET hit == UpdatedRows(u, registrationId)
         hitSeq == SetToSeq(hit)
     IN /\ Len(activity_logs) + Len(hitSeq) <= MaxLog
        /\ registrations' = (registrations \ hit) \cup
                              {[r EXCEPT !.status = newStatus] : r \in hit}
        /\ activity_logs' = activity_logs \o
              [i \in 1..Len(hitSeq) |->
                 TriggerLog(hitSeq[i].registered_by, "UPDATE", hitSeq[i].id)]
  /\ UNCHANGED <<profiles, studentsTbl, sports, settings, nextId, formVars,
                 pageVars>>

\* ----------------------------------------------------------- EditSportForm
\* String.prototype.trim on a string of the characters the model uses.
RECURSIVE TrimStart(_)
TrimStart(s) ==
  IF Len(s) = 0 THEN s
  ELSE IF Head(s) = " " THEN TrimStart(Tail(s)) ELSE s

RECURSIVE TrimEnd(_)
TrimEnd(s) ==
  IF Len(s) = 0 THEN s
  ELSE IF s[Len(s)] = " " THEN TrimEnd(SubSeq(s, 1, Len(s) - 1)) ELSE s

Trim(s) == TrimEnd(TrimStart(s))

DigitValue == [c \in {"0", "1", "2", "3", "4", "5", "6", "7", "8", "9"} |->
                 CASE c = "0" -> 0 [] c = "1" -> 1 [] c = "2" -> 2 [] c = "3" -> 3
                   [] c = "4" -> 4 [] c = "5" -> 5 [] c = "6" -> 6 [] c = "7" -> 7
                   [] c = "8" -> 8 [] c = "9" -> 9]

\* The value of the leading digits of s, read after acc.
RECURSIVE DigitsValue(_, _)
DigitsValue(s, acc) ==
  IF Len(s) = 0 \/ Head(s) \notin DOMAIN DigitValue THEN acc
  ELSE DigitsValue(Tail(s), 10 * acc + DigitValue[Head(s)])

\* parseInt(string): leading white space, an optional sign, then digits up
\* to the first other character; NaN when there is no digit.
ParseInt(s) ==
  LET t == TrimStart(s)
      signed == Len(t) > 0 /\ Head(t) \in {"-", "+"}
      digits == IF signed THEN Tail(t) ELSE t
  IN IF Len(digits) = 0 \/ Head(digits) \notin DOMAIN DigitValue
     THEN [nan |-> TRUE, value |-> 0]
     ELSE [nan |-> FALSE,
           value |-> IF signed /\ Head(t) = "-" THEN 0 - DigitsValue(digits, 0)
                     ELSE DigitsValue(digits, 0)]

\* validateForm(): the message, or "null".  A date not picked is 0.
validateForm(formData) ==
  IF Len(Trim(formData.name)) = 0 THEN "Event name is required"
  ELSE IF Len(Trim(formData.description)) = 0 THEN "Description is required"
  ELSE IF Len(Trim(formData.venue)) = 0 THEN "Venue is required"
  ELSE IF /\ Len(formData.maxParticipants) > 0
          /\ ~ParseInt(formData.maxParticipants).nan
          /\ ParseInt(formData.maxParticipants).value <= 0
       THEN "Max participants must be a positive number"
  ELSE IF /\ formData.registrationDeadline # 0
          /\ formData.eventDate # 0
          /\ formData.registrationDeadline >= formData.eventDate
       THEN "Registration deadline must be before event date"
  ELSE "null"

\* The row after .update({...}): a date not picked is left out of the
\* request, NaN is sent as null.
UpdatedSport(row, formData) ==
  [type |-> formData.type,
   name |-> Trim(formData.name),
   description |-> Trim(formData.description),
   venue |-> Trim(formData.venue),
   max_participants |->
     IF Len(formData.maxParticipants) > 0 /\ ~ParseInt(formData.maxParticipants).nan
     THEN [null |-> FALSE, value |-> ParseInt(formData.maxParticipants).value]
     ELSE [null |-> TRUE, value |-> 0],
   registration_deadline |-> IF formData.registrationDeadline # 0
                             THEN formData.registrationDeadline
                             ELSE row.registration_deadline,
   event_date |-> IF formData.eventDate # 0 THEN formData.eventDate
                  ELSE row.event_date]

\* "Admin can manage all sports": FOR ALL USING (the caller is an admin).
CanUpdateSport(p) == ProfileRole(p) = ADMIN

\* registrations.sport_id REFERENCES sports(id) ON DELETE CASCADE: an update
\* of a sport that keeps its id touches no registration.
RegistrationsAfterSportUpdate_Cascade(sp) ==
  {r \in registrations : r.sport_id # sp}

RegistrationsAfterSportUpdate(sp) == registrations

\* What the user of the edit form has typed.
EditInputs ==
  LET ok == [name |-> <<" ", "c">>, type |-> ATHLETIC, description |-> <<"d">>,
             maxParticipants |-> <<"5">>, registrationDeadline |-> 1,
             eventDate |-> 2, venue |-> <<"v", " ">>]
  IN {ok,
      [ok EXCEPT !.type = GAME, !.maxParticipants = <<>>, !.eventDate = 0],
      [ok EXCEPT !.maxParticipants = <<"x">>],
      [ok EXCEPT !.name = <<" ">>],
      [ok EXCEPT !.venue = <<>>],
      [ok EXCEPT !.maxParticipants = <<"-", "1">>],
      [ok EXCEPT !.maxParticipants = <<"0">>],
      [ok EXCEPT !.registrationDeadline = 2]}

\* handleSubmit of the edit form opened on sport sp: validation, the update
\* of the row, the audit entry, the toast.
EditSport(x, u, sp, formData) ==
  /\ page[x] \in {"none", "sports"}
  /\ pc[x] = "idle"
  /\ submits < MaxSubmits
  /\ submits' = submits + 1
  /\ page' = [page EXCEPT ![x] = "sports"]
  /\ profile' = [profile EXCEPT ![x] = u]
  /\ IF validateForm(formData) # "null"
     THEN /\ toast' = [toast EXCEPT ![x] = "Validation Error"]
          /\ UNCHANGED dbVars
     ELSE /\ Len(activity_logs) < MaxLog
          /\ sports' = IF CanUpdateSport(u)
                       THEN [sports EXCEPT ![sp] = UpdatedSport(@, formData)]
                       ELSE sports
          /\ registrations' = RegistrationsAfterSportUpdate(sp)
          /\ activity_logs' = Append(activity_logs,
                [user_id |-> u,
                 action |-> "sport_updated",
                 details |-> [sport_id |-> sp, sport_name |-> formData.name,
                              sport_type |-> formData.type]])
          /\ toast' = [toast EXCEPT ![x] = "Success"]
          /\ UNCHANGED <<profiles, studentsTbl, settings, nextId>>
  /\ UNCHANGED <<sport, students, selectedStudents, existingRegistrations,
                 registrationLimits, studentRegistrationCounts, loading,
                 registering, showWarningDialog, studentsExceedingLimits, pc,
                 closure, pageVars>>

\* ------------------------------------------------------------ direct calls
\* getStudentRegistrationInfo(studentIds, sportType) called by code other
\* than the form, with the caller's credentials, once in a session.
CallInputs == {<<>>, <<"s1">>, <<"s1", "s3">>}

CallGetStudentRegistrationInfo(x, u, studentIds, sp) ==
  /\ page[x] = "none"
  /\ pc[x] = "idle"
  /\ page' = [page EXCEPT ![x] = "lib"]
  /\ profile' = [profile EXCEPT ![x] = u]
  /\ sport' = [sport EXCEPT ![x] = [id |-> sp, type |-> sports[sp].type]]
  /\ closure' = [closure EXCEPT ![x] =
        [NoClosure EXCEPT !.selectedStudents = studentIds]]
  /\ pc' = [pc EXCEPT ![x] = InfoStart(studentIds)]
  /\ UNCHANGED <<dbVars, students, selectedStudents, existingRegistrations,
                 registrationLimits, studentRegistrationCounts, loading,
                 registering, showWarningDialog, studentsExceedingLimits,
                 toast, pageVars, submits>>

\* getStudentRegistrationInfo: the registrations query, then the result is
\* handed to the caller.
infoReturn(x) ==
  /\ pc[x] = "info_registrations"
  /\ page[x] = "lib"
  /\ closure' = [closure EXCEPT ![x].info = getStudentRegistrationInfo(x),
                                ![x].reads = @ + 1]
  /\ pc' = [pc EXCEPT ![x] = "idle"]
  /\ UNCHANGED <<dbVars, profile, page, sport, students, selectedStudents,
                 existingRegistrations, registrationLimits,
                 studentRegistrationCounts, loading, registering,
                 showWarningDialog, studentsExceedingLimits, toast,
                 pageVars, submits>>

\* ---------------------------------------------------- settings and profiles
\* "Admin can manage settings": FOR ALL USING (the caller's profile has role
\* admin).
CanWriteSetting_Anyone(p) == TRUE

CanWriteSetting(p) == ProfileRole(p) = ADMIN

\* "Everyone can view settings": FOR SELECT USING (true).
CanSelectSetting(p) == TRUE

NoSetting(key) ==
  IF key = "auto_approve_registrations"
  THEN [present |-> FALSE, enabled |-> FALSE]
  ELSE [present |-> FALSE, limit |-> 0]

\* The rows of settings a select of the caller returns.
VisibleSettings(p) ==
  [key \in SettingKeys |-> IF CanSelectSetting(p) THEN settings[key] ELSE NoSetting(key)]

SettingValues(key) ==
  IF key = "auto_approve_registrations" THEN FlagValues ELSE LimitValues

\* A statement that writes one row of settings (update, upsert or delete of
\* the key), sent with the caller's credentials: a caller the policy does
\* not cover changes no row.
ApiUpdateSetting(x, u, key, value) ==
  /\ page[x] \in {"none", "api"}
  /\ pc[x] = "idle"
  /\ submits < MaxSubmits
  /\ submits' = submits + 1
  /\ page' = [page EXCEPT ![x] = "api"]
  /\ profile' = [profile EXCEPT ![x] = u]
  /\ settings' = IF CanWriteSetting(u)
                 THEN [settings EXCEPT ![key] = value]
                 ELSE settings
  /\ UNCHANGED <<profiles, studentsTbl, sports, registrations, activity_logs,
                 nextId, formVars, pageVars>>

\* The values of the user_role type the model uses.
Roles == {ADMIN, FIRST_YEAR_COORDINATOR, SECOND_YEAR_COORDINATOR}

\* "Users can update their own profile": FOR UPDATE USING (auth.uid() =
\* user_id), for every column of the row.
CanUpdateProfile(p, target) == p = target

\* update profiles set role = ... where user_id = target, sent with the
\* caller's credentials.
ApiUpdateProfile(x, u, target, role) ==
  /\ page[x] \in {"none", "api"}
  /\ pc[x] = "idle"
  /\ submits < MaxSubmits
  /\ submits' = submits + 1
  /\ page' = [page EXCEPT ![x] = "api"]
  /\ profile' = [profile EXCEPT ![x] = u]
  /\ profiles' = IF CanUpdateProfile(u, target)
                 THEN [profiles EXCEPT ![target] = role]
                 ELSE profiles
  /\ UNCHANGED <<studentsTbl, sports, registrations, settings, activity_logs,
                 nextId, formVars, pageVars>>

\* ------------------------------------------------------------------- Next
\* Every step of a form but the clicks on single student cards.
FormButtonStep(x) ==
  \/ \E u \in Profiles, sp \in SportIds :
       <<x, u, sp>> \in FormInputs /\ MountForm(x, u, sp)
  \/ fetchData(x)
  \/ SelectAll(x)
  \/ ClearAll(x)
  \/ RegisterButton(x)
  \/ infoLimits(x)
  \/ infoStudents(x)
  \/ infoRegistrations(x)
  \/ performSettings(x)
  \/ performInsert(x)
  \/ performLog(x)
  \/ handleWarningConfirm(x)
  \/ handleWarningCancel(x)

FormStep(x) ==
  \/ FormButtonStep(x)
  \/ \E s \in StudentIds : handleStudentToggle(x, s)

PageStep(x) ==
  \/ MountRegistrations(x, "admin")
  \/ \E id \in 1..MaxRegId, st \in {APPROVED, REJECTED} :
       updateRegistrationStatus(x, id, st)

ApiStep(x) ==
  \/ \E q \in ApiInputs : ApiRequest(x, q[1], q[2], q[3])
  \/ \E u \in Profiles, id \in 1..MaxRegId, st \in {APPROVED, REJECTED} :
       ApiUpdateStatus(x, u, id, st)
  \/ performSettings(x)
  \/ performInsert(x)
  \/ performLog(x)

\* Two forms at work: the user of x1 picks students one by one, the user of
\* x2 with the select-all and clear-all buttons.
Next == FormStep("x1") \/ FormButtonStep("x2")

Spec == Init /\ [][Next]_vars

\* One form and two admin sessions on the registrations page.
NextApproval ==
  \/ FormButtonStep("x2")
  \/ \E x \in PageSessions : PageStep(x)


CallStep(x) ==
  \/ \E u \in Profiles, ids \in CallInputs, sp \in {"g1", "a1"} :
       CallGetStudentRegistrationInfo(x, u, ids, sp)
  \/ infoLimits(x)
  \/ infoStudents(x)
  \/ infoReturn(x)

\* A form whose handler is also called without the button, and a caller of
\* the quota functions.
NextCalls == FormStep("x1") \/ handleSubmit("x1") \/ CallStep("x3")

SpecCalls == Init /\ [][NextCalls]_vars

AdminStep(x) ==
  \/ \E u \in Profiles, key \in SettingKeys :
       \E value \in SettingValues(key) : ApiUpdateSetting(x, u, key, value)
  \/ \E u \in Profiles, target \in Profiles, role \in Roles :
       ApiUpdateProfile(x, u, target, role)

\* Writes of settings and profiles by every principal, and a caller of the
\* quota functions reading the settings.
NextAdmin == AdminStep("x1") \/ CallStep("x3")

SpecAdmin == Init /\ [][NextAdmin]_vars

BrowseStep(x) ==
  \/ \E u \in Profiles : MountRegistrations(x, u)
  \/ \E u \in Profiles : MountStudents(x, u)
  \/ \E u \in Profiles : MountDashboard(x, u)
  \/ \E u \in Profiles, y \in YearFilters : DownloadReport(x, u, y)
  \/ LeavePage(x)

\* The registrations page with all its buttons, opened once by any
\* principal.
ManageStep(x) ==
  \/ \E u \in Profiles : MountRegistrations(x, u)
  \/ \E id \in 1..MaxRegId, st \in {APPROVED, REJECTED} :
       updateRegistrationStatus(x, id, st)
  \/ \E id \in 1..MaxRegId : deleteRegistration(x, id)

\* The insert requests alone.
InsertStep(x) ==
  \/ \E q \in ApiInputs : ApiRequest(x, q[1], q[2], q[3])
  \/ performSettings(x)
  \/ performInsert(x)
  \/ performLog(x)

\* Registrations arrive while one user opens the pages one after the other.
NextPages == InsertStep("x3") \/ BrowseStep("x1")

SpecPages == Init /\ [][NextPages]_vars

\* Registrations arrive while one user works on the registrations page.
NextManage == InsertStep("x3") \/ ManageStep("x1")

\* The registrations page reads no setting: one stored configuration, a
\* game limit of 1 and no auto-approve row, is enough for it.
InitManage ==
  /\ Init
  /\ settings["max_game_registrations"] = [present |-> TRUE, limit |-> 1]
  /\ ~settings["auto_approve_registrations"].present

SpecManage == InitManage /\ [][NextManage]_vars

SpecApproval == InitManage /\ [][NextApproval]_vars

SportsStep(x) ==
  \E u \in {"admin", "c1"}, sp \in {"g1", "a1"}, formData \in EditInputs :
     EditSport(x, u, sp, formData)

\* Registrations arrive while sports are edited.
NextSports == InsertStep("x3") \/ SportsStep("x1")

SpecSports == InitManage /\ [][NextSports]_vars

\* The form without the confirmation of the warning dialog.
QuotaFormStep(x) ==
  \/ \E u \in Profiles, sp \in SportIds :
       <<x, u, sp>> \in FormInputs /\ MountForm(x, u, sp)
  \/ fetchData(x)
  \/ \E s \in StudentIds : handleStudentToggle(x, s)
  \/ SelectAll(x)
  \/ ClearAll(x)
  \/ RegisterButton(x)
  \/ infoLimits(x)
  \/ infoStudents(x)
  \/ infoRegistrations(x)
  \/ performSettings(x)
  \/ performInsert(x)
  \/ performLog(x)
  \/ handleWarningCancel(x)

\* One form whose warnings are never confirmed and two admin sessions on the
\* registrations page; an admin's request is sent only while no request of
\* the form is under way, so the requests run one at a time.
NextQuota ==
  \/ QuotaFormStep("x2")
  \/ pc["x2"] = "idle" /\ \E x \in PageSessions : PageStep(x)

SpecQuota == InitManage /\ [][NextQuota]_vars

\* Two forms whose quota checks may be answered with a storage error.
NextErrors ==
  \/ FormStep("x1") \/ infoError("x1")
  \/ FormButtonStep("x2") \/ infoError("x2")

SpecErrors == InitManage /\ [][NextErrors]_vars

\* One form, with every request of performRegistration answered: a promise
\* the handler awaits is settled by the storage client, with rows or with an
\* error.
NextLive == FormStep("x1") \/ insertError("x1")

SpecLive ==
  /\ Init
  /\ [][NextLive]_vars
  /\ WF_vars(performSettings("x1"))
  /\ WF_vars(performInsert("x1") \/ insertError("x1"))
  /\ WF_vars(performLog("x1"))

StudentsStep(x) ==
  \/ \E u \in Profiles : MountStudents(x, u)
  \/ \E s \in StudentIds : handleDeleteStudent(x, s)

\* Registrations arrive while students are deleted on the students page.
NextStudents == InsertStep("x3") \/ StudentsStep("x1")

SpecStudents == InitManage /\ [][NextStudents]_vars

\* A form whose effect may run again, while registrations arrive.
NextReload == FormStep("x1") \/ useEffectAgain("x1") \/ InsertStep("x3")

\* Neither check looks at the status the rows are written with: no
\* auto-approve row is stored, and the game limit is any of its values.
InitReload ==
  /\ Init
  /\ ~settings["auto_approve_registrations"].present

SpecReload == InitReload /\ [][NextReload]_vars

\* Requests that reach the storage API directly.
NextApi == ApiStep("x3")

SpecApi == Init /\ [][NextApi]_vars

\* ================================================================ claims
\* C1: in every reachable state the ledger holds at most one registration
\* for a pair of student and sport, whatever requests were made, repeated or
\* from two sessions at once.
C1_OnePerStudentAndSport ==
  \A r \in registrations, q \in registrations :
     (r.student_id = q.student_id /\ r.sport_id = q.sport_id) => r.id = q.id

\* Two students are registered for a sport, and a second request for both
\* pairs, made from a form that was opened before, has been refused.
C1_Witness ==
  \E x \in Sessions :
     /\ page[x] = "form"
     /\ toast[x] = "Failed to register students"
     /\ Len(selectedStudents[x]) = 2
     /\ \A i \in 1..2 : \E r \in registrations :
           r.student_id = selectedStudents[x][i] /\ r.sport_id = sport[x].id
     /\ Cardinality(registrations) = 2

\* C2: an insert that carries a pair the ledger already holds fails with the
\* duplicate-key error; the session shows the failure and the ledger is as it
\* was: no row is added and no row changes, so the stored registration keeps
\* its id and its status.
C2_DuplicateRefused ==
  [][\A x \in Sessions :
       (/\ pc[x] = "reg_insert"
        /\ pc'[x] # "reg_insert"
        /\ \E i \in 1..Len(closure[x].selectedStudents), r \in registrations :
              /\ r.student_id = closure[x].selectedStudents[i]
              /\ r.sport_id = sport[x].id)
       => /\ InsertError(profile[x], RegistrationRows(x)) = "23505"
          /\ toast'[x] = "Failed to register students"
          /\ registrations' = registrations
          /\ nextId' = nextId
          /\ activity_logs' = activity_logs]_vars

\* A request for an approved registration's pair has been refused; the
\* registration is still there, approved.
C2_Witness ==
  \E x \in Sessions, r \in registrations :
     /\ page[x] = "form"
     /\ pc[x] = "idle"
     /\ toast[x] = "Failed to register students"
     /\ r.student_id \in Range(selectedStudents[x])
     /\ r.sport_id = sport[x].id
     /\ r.status = APPROVED
     /\ r.id = 1

\* C3: with a limit N > 0 read for the sport's category, the quota check
\* reports a selected student as exceeding exactly when the ledger holds at
\* least N counted registrations (pending or approved, sport of that
\* category) of the student.
C3_ExceededIffAtLeastLimit ==
  \A x \in Sessions :
     (pc[x] = "info_registrations" /\ closure[x].limit > 0) =>
        \A s \in Range(closure[x].selectedStudents) :
           (\E i \in getStudentsExceedingLimits(getStudentRegistrationInfo(x)) : i.id = s)
           <=> Cardinality({r \in registrations :
                              /\ r.student_id = s
                              /\ r.status \in {PENDING, APPROVED}
                              /\ sports[r.sport_id].type = sport[x].type})
               >= closure[x].limit

\* The check runs with limit N = 1 for a student holding N - 1 = 0 counted
\* registrations, who is not reported, and for a student who has been
\* registered once in the category since, who is.
C3_Witness ==
  \E x \in Sessions :
     /\ pc[x] = "info_registrations"
     /\ closure[x].limit = 1
     /\ \E i \in getStudentRegistrationInfo(x), j \in getStudentRegistrationInfo(x) :
          /\ i.currentCount = 0
          /\ i \notin getStudentsExceedingLimits(getStudentRegistrationInfo(x))
          /\ j.currentCount = 1
          /\ j \in getStudentsExceedingLimits(getStudentRegistrationInfo(x))

\* C4: when the limit of the sport's category is 0, stored as 0 or not
\* stored at all, the quota check reports no student.  (The check compares
\* currentCount >= limit, so this is not what the code does.)
C4_ZeroLimitNeverExceeded ==
  \A x \in Sessions :
     (/\ pc[x] = "info_registrations"
      /\ LET v == settings[IF sport[x].type = GAME THEN "max_game_registrations"
                           ELSE "max_athletic_registrations"]
         IN ~v.present \/ v.limit = 0)
     => getStudentsExceedingLimits(getStudentRegistrationInfo(x)) = {}

\* C5: the currentCount the quota check computes for a selected student is
\* the number of the student's registrations in the ledger that are pending
\* or approved and whose sport has the category of the sport at hand;
\* rejected registrations, registrations in the other category and other
\* students' registrations add nothing, and a student with none has 0.
C5_CurrentCount ==
  \A x \in Sessions :
     pc[x] = "info_registrations" =>
        /\ {i.id : i \in getStudentRegistrationInfo(x)} = Range(closure[x].selectedStudents)
        /\ \A i \in getStudentRegistrationInfo(x) :
              i.currentCount =
                 Cardinality({r \in registrations :
                                /\ r.student_id = i.id
                                /\ r.status \in {PENDING, APPROVED}
                                /\ sports[r.sport_id].type = sport[x].type})

\* The check runs for two students who were registered for a game each; one
\* of the registrations has been rejected since, and that student counts 0
\* while the other counts 1.
C5_Witness ==
  \E x \in Sessions :
     /\ pc[x] = "info_registrations"
     /\ \E i \in getStudentRegistrationInfo(x), j \in getStudentRegistrationInfo(x) :
          /\ i.currentCount = 0
          /\ \E r \in registrations :
                /\ r.student_id = i.id
                /\ r.status = REJECTED
                /\ sports[r.sport_id].type = sport[x].type
          /\ j.currentCount = 1

\* C6: when the quota check of a submit ends with a limit N > 0 and at
\* least one selected student holding N or more counted registrations, the
\* form opens the warning with exactly those students listed, does not start
\* the registration, and neither the ledger nor the audit log changes.
C6_WarningWritesNothing ==
  [][\A x \in Sessions :
       LET over == {s \in Range(closure[x].selectedStudents) :
                      Cardinality({r \in registrations :
                                     /\ r.student_id = s
                                     /\ r.status \in {PENDING, APPROVED}
                                     /\ sports[r.sport_id].type = sport[x].type})
                      >= closure[x].limit}
       IN (/\ pc[x] = "info_registrations"
           /\ pc'[x] # "info_registrations"
           /\ closure[x].limit > 0
           /\ over # {})
          => /\ showWarningDialog'[x]
             /\ {i.id : i \in studentsExceedingLimits'[x]} = over
             /\ pc'[x] = "idle"
             /\ ~registering'[x]
             /\ registrations' = registrations
             /\ nextId' = nextId
             /\ activity_logs' = activity_logs]_vars

\* The warning is open with limit 1 for a selection of two students, of
\* whom only the one already registered for a game is listed.
C6_Witness ==
  \E x \in Sessions :
     /\ showWarningDialog[x]
     /\ closure[x].limit = 1
     /\ Len(closure[x].selectedStudents) = 2
     /\ Cardinality(studentsExceedingLimits[x]) = 1
     /\ \A i \in studentsExceedingLimits[x] : i.currentCount = 1
     /\ Cardinality(registrations) = 1

\* C7: the registration started by confirming the warning writes the
\* students the quota check was run for.  (The confirm handler reads the
\* selection of the current render, which the user may have changed while
\* the check was awaited, so this is not what the code does.)
C7_OverrideWritesEvaluatedSet ==
  [][\A x \in Sessions :
       (showWarningDialog[x] /\ ~showWarningDialog'[x] /\ pc'[x] = "reg_settings")
       => closure'[x].selectedStudents = closure[x].selectedStudents]_vars

\* C8: every registration a request stores has status approved when the
\* auto-approve setting is stored and enabled, and pending when it is
\* disabled or not stored; all rows of one request have the same status.
C8_InitialStatus ==
  [][\A r \in registrations' :
       (\A q \in registrations : q.id # r.id) =>
          r.status = IF settings["auto_approve_registrations"].present
                        /\ settings["auto_approve_registrations"].enabled
                     THEN APPROVED ELSE PENDING]_vars

\* One request has stored two registrations, both approved, with
\* auto-approve enabled.
C8_Witness ==
  /\ settings["auto_approve_registrations"].enabled
  /\ \E r \in registrations, q \in registrations :
        /\ r.id = 1 /\ q.id = 2
        /\ r.status = APPROVED /\ q.status = APPROVED
        /\ r.sport_id = q.sport_id
  /\ \E n \in 1..Len(activity_logs) :
        /\ activity_logs[n].action = "students_registered"
        /\ activity_logs[n].details.student_count = 2

\* C9: an insert by a coordinator that carries a student of another year is
\* refused as a whole: the ledger and the audit log stay as they were, also
\* for the students of the coordinator's own year in the same request.
C9_OutOfYearRefused ==
  [][\A x \in Sessions :
       (/\ pc[x] = "reg_insert"
        /\ pc'[x] # "reg_insert"
        /\ ProfileRole(profile[x]) # ADMIN
        /\ \E i \in 1..Len(closure[x].selectedStudents) :
              StudentYear(closure[x].selectedStudents[i])
                 # CoordinatorYear(ProfileRole(profile[x])))
       => /\ toast'[x] = "Failed to register students"
          /\ registrations' = registrations
          /\ nextId' = nextId
          /\ activity_logs' = activity_logs]_vars

\* The first-year coordinator's request for a first-year student and a
\* second-year student has been refused and the ledger is empty.
C9_Witness ==
  \E x \in Sessions :
     /\ page[x] = "api"
     /\ pc[x] = "idle"
     /\ profile[x] = "c1"
     /\ selectedStudents[x] = <<"s1", "s3">>
     /\ toast[x] = "Failed to register students"
     /\ registrations = {}

\* C10: the status of a stored registration changes only from pending.
\* (The update of the registrations page names the row by id alone, so a
\* session whose page still shows the row as pending changes it whatever its
\* status has become: this is not what the code does.)
C10_OnlyPendingChanges ==
  [][\A r \in registrations, q \in registrations' :
       (r.id = q.id /\ r.status # q.status) => r.status = PENDING]_vars

\* C11: the status of a stored registration changes only in a step made
\* with an admin's credentials.  (The coordinator policy on registrations is
\* FOR ALL, so it also lets a coordinator update the registrations of the
\* students of their year: this is not what the code does.)
C11_OnlyAdminChangesStatus ==
  [][\A r \in registrations, q \in registrations' :
       (r.id = q.id /\ r.status # q.status) =>
          \E x \in Sessions :
             /\ page'[x] \in {"api", "registrations"}
             /\ profile'[x] \in Profiles
             /\ ProfileRole(profile'[x]) = ADMIN]_vars

\* C12: the insert of a request is all or nothing.  It either stores one
\* new registration for every selected student and goes on to the log, or it
\* fails and the ledger is as it was; it fails whenever one of its pairs is
\* already stored, so no part of such a batch exists afterwards.
C12_BatchAllOrNothing ==
  [][\A x \in Sessions :
       (pc[x] = "reg_insert" /\ pc'[x] # "reg_insert") =>
          LET sel == closure[x].selectedStudents
              new == registrations' \ registrations
          IN /\ \/ /\ pc'[x] = "reg_log"
                   /\ registrations \subseteq registrations'
                   /\ Cardinality(new) = Len(sel)
                   /\ {r.student_id : r \in new} = Range(sel)
                   /\ \A r \in new : r.sport_id = sport[x].id
                \/ /\ pc'[x] = "idle"
                   /\ toast'[x] = "Failed to register students"
                   /\ registrations' = registrations
             /\ (\E i \in 1..Len(sel), r \in registrations :
                    r.student_id = sel[i] /\ r.sport_id = sport[x].id)
                => pc'[x] = "idle"]_vars

\* A request for two students, one of whom had been registered for the
\* sport from another form in the meantime, has failed: the other student
\* has no registration for the sport.
C12_Witness ==
  \E x \in Sessions :
     /\ page[x] = "form"
     /\ pc[x] = "idle"
     /\ toast[x] = "Failed to register students"
     /\ selectedStudents[x] = <<"s1", "s2">>
     /\ \E r \in registrations : r.student_id = "s1" /\ r.sport_id = sport[x].id
     /\ \A r \in registrations : ~(r.student_id = "s2" /\ r.sport_id = sport[x].id)

C14_EmptySelectionRefused ==
  [][\A x \in Sessions :
       (/\ page[x] = "form"
        /\ \A y \in Sessions \ {x} : page[y] # "form"
        /\ pc[x] = "idle"
        /\ submits' = submits + 1
        /\ Len(selectedStudents[x]) = 0)
       => /\ toast'[x] = "No Students Selected"
          /\ pc'[x] = "idle"
          /\ closure'[x] = closure[x]
          /\ ~registering'[x]
          /\ UNCHANGED dbVars]_vars

\* The handler has answered a call with nothing selected while the ledger
\* already holds a registration.
C14_Witness ==
  \E x \in Sessions :
     /\ page[x] = "form"
     /\ toast[x] = "No Students Selected"
     /\ selectedStudents[x] = <<>>
     /\ pc[x] = "idle"
     /\ registrations # {}
     /\ activity_logs # <<>>

\* C20: getStudentRegistrationInfo called with no student ids is back with
\* its caller at once with an empty result: none of its three queries
\* (settings, students, registrations) is started or answered, then or
\* later, and the stored data are as before.
C20_EmptyEvaluationTouchesNothing ==
  [][\A x \in Sessions :
       (page'[x] = "lib" /\ closure'[x].selectedStudents = <<>>)
       => /\ pc'[x] = "idle"
          /\ closure'[x].info = {}
          /\ closure'[x].limit = NoClosure.limit
          /\ closure'[x].studentRows = {}
          /\ page[x] = "none" => UNCHANGED dbVars]_vars

\* The call with no ids has returned while the ledger holds a counted
\* registration that a call with that student's id would have reported.
C20_Witness ==
  \E x \in Sessions :
     /\ page[x] = "lib"
     /\ closure[x].selectedStudents = <<>>
     /\ pc[x] = "idle"
     /\ closure[x].info = {}
     /\ \E r \in registrations : r.status \in {PENDING, APPROVED}

\* C15: a step changes a row of settings (a limit or the auto-approve flag)
\* only when it is a write of a caller whose stored role is admin at that
\* moment; a write sent by any other caller leaves settings as they were.
\* Every principal's select returns the stored settings, and the limit a
\* caller of any role reads is the stored one.
C15_OnlyAdminWritesSettings ==
  [][/\ settings' # settings =>
          \E x \in Sessions :
             /\ page'[x] = "api"
             /\ submits' = submits + 1
             /\ ProfileRole(profile'[x]) = ADMIN
     /\ \A x \in Sessions :
          (/\ page'[x] = "api"
           /\ submits' = submits + 1
           /\ ProfileRole(profile'[x]) # ADMIN)
          => settings' = settings
     /\ \A p \in Profiles : VisibleSettings(p) = settings
     /\ \A x \in Sessions :
          (pc[x] = "info_limits" /\ pc'[x] = "info_students")
          => closure'[x].limit =
               LimitOrZero(settings[IF sport[x].type = GAME
                                    THEN "max_game_registrations"
                                    ELSE "max_athletic_registrations"])]_vars

\* A coordinator's write has been refused after an admin changed the game
\* limit, and a coordinator's call has read the limit the admin stored.
C15_Witness ==
  /\ page["x1"] = "api"
  /\ ProfileRole(profile["x1"]) # ADMIN
  /\ profiles = [p \in Profiles |-> SignupRole(p)]
  /\ submits = 2
  /\ settings["max_game_registrations"] = [present |-> TRUE, limit |-> 1]
  /\ settings["auto_approve_registrations"] = [present |-> FALSE, enabled |-> FALSE]
  /\ page["x3"] = "lib"
  /\ ProfileRole(profile["x3"]) # ADMIN
  /\ sport["x3"].type = GAME
  /\ pc["x3"] = "info_students"
  /\ closure["x3"].limit = 1

\* C18: a request of a caller whose stored role is not admin, an update of
\* the caller's own profile included, leaves the stored role of every
\* principal as it was.
C18_NonAdminNeverChangesRole ==
  [][\A x \in Sessions :
       (/\ page'[x] = "api"
        /\ submits' = submits + 1
        /\ ProfileRole(profile'[x]) # ADMIN)
       => \A p \in Profiles : profiles'[p] = profiles[p]]_vars

\* C16: the quota is looked at only by the check that precedes the insert.
\* A check passes (with a limit above 0) when every student of the batch
\* holds fewer counted registrations than the limit at that moment; the
\* insert that follows succeeds whenever the caller may register the
\* students and none is yet in the sport, whatever the students hold by
\* then.  Two requests whose checks both ran before either insert therefore
\* both succeed.
C16_QuotaCheckedOnlyBeforeInsert ==
  [][\A x \in Sessions :
       LET sel == closure[x].selectedStudents
           held(s) == {r \in registrations :
                         /\ r.student_id = s
                         /\ r.status \in {PENDING, APPROVED}
                         /\ sports[r.sport_id].type = sport[x].type}
       IN /\ (/\ pc[x] = "info_registrations"
              /\ pc'[x] = "reg_settings"
              /\ closure[x].limit > 0)
             => \A i \in 1..Len(sel) : Cardinality(held(sel[i])) < closure[x].limit
          /\ (/\ pc[x] = "reg_insert"
              /\ pc'[x] # "reg_insert"
              /\ \A i \in 1..Len(sel) :
                    /\ CanManageRegistration(profile[x], sel[i])
                    /\ \A r \in registrations :
                          ~(r.student_id = sel[i] /\ r.sport_id = sport[x].id))
             => /\ pc'[x] = "reg_log"
                /\ \A i \in 1..Len(sel) :
                      \E r \in registrations' \ registrations :
                         r.student_id = sel[i] /\ r.sport_id = sport[x].id]_vars

\* With a game limit of 1, two forms have each passed the check for student
\* s1, who held 0 = limit - 1 counted games, and each has inserted, one into
\* g1 and one into g2: s1 holds limit + 1 = 2 counted games and no warning
\* was shown.
C16_Witness ==
  /\ settings["max_game_registrations"] = [present |-> TRUE, limit |-> 1]
  /\ \A x \in {"x1", "x2"} :
        /\ page[x] = "form"
        /\ pc[x] = "reg_log"
        /\ closure[x].limit = 1
        /\ "s1" \in Range(closure[x].selectedStudents)
        /\ studentsExceedingLimits[x] = {}
  /\ sport["x1"].id = "g1"
  /\ sport["x2"].id = "g2"
  /\ Cardinality({r \in registrations :
                    /\ r.student_id = "s1"
                    /\ r.status \in {PENDING, APPROVED}
                    /\ sports[r.sport_id].type = GAME}) = 2

\* C17: whatever the students page, the registrations page, the dashboard
\* and the report fetch for a coordinator is exactly the students of the
\* coordinator's year and the registrations of those students (for the
\* dashboard, their numbers); for an admin it is every student and every
\* registration, narrowed only by the year the admin picks for a report.
C17_ListsWithinYear ==
  [][\A x \in Sessions :
       LET role == ProfileRole(profile'[x])
           inYear(s) ==
             \/ role = ADMIN
             \/ role = FIRST_YEAR_COORDINATOR /\ StudentYear(s) = FIRST
             \/ role = SECOND_YEAR_COORDINATOR /\ StudentYear(s) = SECOND
             \/ role = THIRD_YEAR_COORDINATOR /\ StudentYear(s) = THIRD
             \/ role = FOURTH_YEAR_COORDINATOR /\ StudentYear(s) = FOURTH
           scope == {s \in studentsTbl : inYear(s)}
           regs == {r \in registrations : r.student_id \in scope}
           picked == pageState'[x].selectedYear
       IN (page[x] = "none" /\ page'[x] # "none") =>
            /\ page'[x] = "students" => pageState'[x].students = scope
            /\ page'[x] = "registrations" => pageRegistrations'[x] = regs
            /\ page'[x] = "dashboard" =>
                 /\ pageState'[x].totalStudents = Cardinality(scope)
                 /\ pageState'[x].totalRegistrations = Cardinality(regs)
            /\ page'[x] = "report" =>
                 pageState'[x].report =
                   {r \in regs : (role = ADMIN /\ picked # ALL) =>
                                    StudentYear(r.student_id) = picked}]_vars

\* The ledger holds registrations of students of both years; the first-year
\* coordinator's dashboard counts the two first-year students and their two
\* registrations.
C17_Witness ==
  /\ page["x1"] = "dashboard"
  /\ profile["x1"] = "c1"
  /\ pageState["x1"].totalStudents = 2
  /\ pageState["x1"].totalRegistrations = 2
  /\ Cardinality(registrations) = 3
  /\ \E r \in registrations : StudentYear(r.student_id) = SECOND

\* C19: when the remove button of the registrations page is pressed on a
\* row by an admin or by the coordinator of the student's year, the ledger
\* afterwards is the ledger before without that row, and the count the
\* quota evaluation makes for any caller, student and category is the count
\* before, less one exactly when the removed row was pending or approved,
\* of that student and category, and visible to the caller.
C19_DeleteRemovesFromCounts ==
  [][\A x \in Sessions :
       (/\ page[x] = "registrations"
        /\ pageState'[x].removed # pageState[x].removed)
       => LET id == pageState'[x].removed
              gone == {r \in registrations : r.id = id}
              count(u, s, type, regs) ==
                Cardinality({r \in regs :
                               /\ CanSelectRegistration(u, r)
                               /\ r.student_id = s
                               /\ r.status \in {PENDING, APPROVED}
                               /\ sports[r.sport_id].type = type})
              reported(info, s) == {i.currentCount : i \in {j \in info : j.id = s}}
          IN /\ registrations' = registrations \ gone
             /\ \A r \in registrations' : r.id # id
             /\ \A u \in Profiles, s \in StudentIds, type \in {GAME, ATHLETIC} :
                   /\ reported(StudentRegistrationInfo({s}, CountedRegistrations(u, {s}), 1, type)', s)
                        = {count(u, s, type, registrations')}
                   /\ count(u, s, type, registrations') =
                        count(u, s, type, registrations)
                        - Cardinality({r \in gone :
                             /\ CanSelectRegistration(u, r)
                             /\ r.student_id = s
                             /\ r.status \in {PENDING, APPROVED}
                             /\ sports[r.sport_id].type = type})]_vars

\* The first-year coordinator has removed the pending or approved game
\* registration of s1 (the log shows it was created and deleted) and the
\* evaluation now counts no game for s1, while s2's registration from the
\* same batch still counts.
C19_Witness ==
  /\ page["x1"] = "registrations"
  /\ profile["x1"] = "c1"
  /\ pageState["x1"].removed = 1
  /\ toast["x1"] = "Registration Removed"
  /\ \E n \in 1..Len(activity_logs) :
        /\ activity_logs[n].action = "registration_deleted"
        /\ activity_logs[n].details.record_id = 1
  /\ \A r \in registrations : r.id # 1
  /\ StudentRegistrationInfo({"s1", "s2"}, CountedRegistrations("c1", {"s1", "s2"}), 1, GAME)
       = {[id |-> "s1", currentCount |-> 0, limit |-> 1],
          [id |-> "s2", currentCount |-> 1, limit |-> 1]}

\* C21: a form mounted for an admin holds no students and no selection and
\* runs no handler, and every step that changes the ledger is the insert of
\* a form whose caller is not an admin.
C21_AdminFormNeverInserts ==
  [][/\ \A x \in Sessions :
          (page'[x] = "form" /\ ProfileRole(profile'[x]) = ADMIN)
          => /\ students'[x] = <<>>
             /\ selectedStudents'[x] = <<>>
             /\ eligibleStudents(x)' = <<>>
             /\ pc'[x] = "idle"
             /\ ~registering'[x]
     /\ registrations' # registrations =>
          \E y \in Sessions :
             /\ page[y] = "form"
             /\ ProfileRole(profile[y]) # ADMIN
             /\ pc[y] = "reg_insert"
             /\ pc'[y] = "reg_log"]_vars

\* The admin's form has finished loading, with nothing to select, while the
\* ledger holds registrations a coordinator's form has written.
C21_Witness ==
  \E x \in Sessions :
     /\ page[x] = "form"
     /\ ProfileRole(profile[x]) = ADMIN
     /\ ~loading[x]
     /\ students[x] = <<>>
     /\ registrations # {}

\* C22: a step that changes a row of sports, or that adds the audit entry
\* of a sport edit, leaves every registration as it was; a submit of the
\* edit form that ends in "Validation Error" changes no stored row at all,
\* and what the form refuses is never stored.
C22_SportEditKeepsLedger ==
  [][/\ sports' # sports => registrations' = registrations
     /\ (/\ Len(activity_logs') = Len(activity_logs) + 1
         /\ activity_logs'[Len(activity_logs')].action = "sport_updated")
        => registrations' = registrations
     /\ \A x \in Sessions :
          (/\ page'[x] = "sports"
           /\ submits' = submits + 1
           /\ toast'[x] = "Validation Error"
           /\ \A y \in Sessions \ {x} : pc'[y] = pc[y])
          => UNCHANGED dbVars
     /\ \A sp \in SportIds :
          /\ Len(sports'[sp].name) > 0
          /\ ~sports'[sp].max_participants.null => sports'[sp].max_participants.value > 0]_vars

\* The admin has edited game g1 into an athletic event after a pending
\* registration for it was stored (the log has the entries in that order),
\* and the registration is still there.
C22_Witness ==
  /\ sports["g1"].type = ATHLETIC
  /\ sports["g1"].name = <<"c">>
  /\ \E r \in registrations : r.sport_id = "g1" /\ r.status = PENDING
  /\ \E m \in 1..Len(activity_logs), n \in 1..Len(activity_logs) :
        /\ m < n
        /\ activity_logs[m].action = "students_registered"
        /\ activity_logs[n].action = "sport_updated"

\* C23: a quota evaluation for a selection of any size above 0 starts with
\* no read made, makes one read in each of its three steps (limits,
\* students, registrations), and ends with three reads made; the students
\* step returns the rows of all the requested students the caller can see.
C23_ThreeReads ==
  [][\A x \in Sessions :
       /\ (pc[x] = "idle" /\ pc'[x] = "info_limits") => closure'[x].reads = 0
       /\ pc'[x] = "info_limits" => closure'[x].reads = 0
       /\ pc'[x] = "info_students" => closure'[x].reads = 1
       /\ pc'[x] = "info_registrations" =>
            /\ closure'[x].reads = 2
            /\ closure'[x].studentRows =
                 {s \in Range(closure'[x].selectedStudents) :
                    CanSelectStudent(profile'[x], s)}
       /\ (pc[x] = "info_registrations" /\ pc'[x] # "info_registrations") =>
            /\ Len(closure[x].selectedStudents) > 0
            /\ closure'[x].reads = 3]_vars

\* One form has finished the evaluation for one student and the other for
\* two students, each with three reads.
C23_Witness ==
  /\ pc["x1"] = "reg_settings"
  /\ pc["x2"] = "reg_settings"
  /\ Len(closure["x1"].selectedStudents) = 1
  /\ Len(closure["x2"].selectedStudents) = 2
  /\ closure["x1"].reads = 3
  /\ closure["x2"].reads = 3


\* The profiles table after sign-ups with any of the coordinator roles of
\* the user_role enum: the form is then used by a coordinator of any year.
CoordinatorRoles == {FIRST_YEAR_COORDINATOR, SECOND_YEAR_COORDINATOR,
                     THIRD_YEAR_COORDINATOR, FOURTH_YEAR_COORDINATOR}

Years == {FIRST, SECOND, THIRD, FOURTH}

InitYears ==
  /\ InitRest
  /\ \E r1 \in CoordinatorRoles, r2 \in CoordinatorRoles :
       profiles = [p \in Profiles |->
                     CASE p = "admin" -> ADMIN [] p = "c1" -> r1 [] p = "c2" -> r2]

NextYears == FormStep("x1")

SpecYears == InitYears /\ [][NextYears]_vars

\* C24: for a form loaded by a coordinator of any of the four roles, the
\* year derived from the role is one of the four years, it is the one year
\* the row-level policies pair with the role, and the students loaded are
\* the students of that year the policies let the coordinator read.
C24_DerivedYearIsRoleYear ==
  \A x \in Sessions :
    (page[x] = "form" /\ ~loading[x] /\ ProfileRole(profile[x]) \in CoordinatorRoles) =>
      LET role == ProfileRole(profile[x])
          year == CoordinatorYear(role)
      IN /\ year \in Years
         /\ \A y \in Years : RoleCoversYear(role, y) <=> y = year
         /\ pc[x] = "idle" /\ registrations = {} =>
              Range(students[x]) = {s \in studentsTbl : StudentYear(s) = year}

\* A fourth-year coordinator's form has finished loading.
C24_Witness ==
  /\ page["x1"] = "form"
  /\ ~loading["x1"]
  /\ ProfileRole(profile["x1"]) = FOURTH_YEAR_COORDINATOR
  /\ CoordinatorYear(ProfileRole(profile["x1"])) = FOURTH


\* C25: when the load of a coordinator's form finishes with at least one
\* student, the count map has an entry for every loaded student, and a
\* student whose count has reached a positive limit cannot register.
C25_CountsLoadedForEveryStudent ==
  [][\A x \in Sessions :
       (/\ page[x] = "form"
        /\ loading[x]
        /\ ~loading'[x]
        /\ ProfileRole(profile[x]) # ADMIN
        /\ Len(students'[x]) > 0) =>
         /\ DOMAIN studentRegistrationCounts'[x] = Range(students'[x])
         /\ \A s \in Range(students'[x]) :
              LET limit == LimitFor(fetchRegistrationLimits, sport[x].type)
                  count == Cardinality(
                     {r \in CountedRegistrations(profile[x], {s}) :
                        sports[r.sport_id].type = sport[x].type})
              IN (limit > 0 /\ count >= limit) => ~canStudentRegister(x, s)']_vars

\* C26: for every student and every category whose stored limit N is above
\* 0, the student has at most N pending or approved registrations in the
\* category.
C26_WithinQuota ==
  \A s \in StudentIds, type \in {GAME, ATHLETIC} :
    LET limit == LimitFor(fetchRegistrationLimits, type)
        held == {r \in registrations :
                   /\ r.student_id = s
                   /\ r.status \in {PENDING, APPROVED}
                   /\ sports[r.sport_id].type = type}
    IN limit > 0 => Cardinality(held) <= limit


\* C27: when one of the reads of a request's quota check fails, the step
\* changes neither the ledger nor the audit log, and the request is over:
\* the form is idle again with the warning dialog closed and no write in
\* progress, until a next request starts.
C27_FailedCheckStops ==
  [][\A x \in Sessions :
       /\ (~closure[x].error /\ closure'[x].error) =>
            /\ pc[x] \in {"info_limits", "info_students", "info_registrations"}
            /\ registrations' = registrations
            /\ activity_logs' = activity_logs
            /\ nextId' = nextId
            /\ toast'[x] = "Failed to check registration limits"
       /\ closure'[x].error =>
            /\ pc'[x] = "idle"
            /\ ~showWarningDialog'[x]
            /\ ~registering'[x]
            /\ studentsExceedingLimits'[x] = studentsExceedingLimits[x]]_vars

\* The registrations read of a check failed for a student who is at the
\* limit of 1: nothing was written and no warning opened.
C27_Witness ==
  /\ closure["x2"].error
  /\ closure["x2"].reads = 3
  /\ pc["x2"] = "idle"
  /\ \E s \in Range(closure["x2"].selectedStudents) :
       Cardinality({r \in registrations :
                      /\ r.student_id = s
                      /\ r.status \in {PENDING, APPROVED}
                      /\ sports[r.sport_id].type = sport["x2"].type}) >= 1
  /\ sport["x2"].type = GAME
  /\ ~showWarningDialog["x2"]


\* C28: a registration write that has started ends with the in-progress
\* flag cleared; the flag is cleared by the step that ends the write, after
\* the insert failed or after the log entry of a stored insert; the form is
\* closed by the success callback only when the rows of the request were
\* stored; and after a failed insert the form is idle with the dialog
\* closed, a write starting again only from a submit or a confirmation.
C28_WriteFinishes ==
  /\ \A x \in {"x1"} : registering[x] ~> ~registering[x]
  /\ [][\A x \in {"x1"} :
          /\ (registering[x] /\ ~registering'[x]) =>
                /\ pc[x] \in {"reg_insert", "reg_log"}
                /\ pc'[x] = "idle"
          /\ (pc[x] \in {"reg_settings", "reg_insert", "reg_log"} /\ pc'[x] = "idle") =>
                ~registering'[x]
          /\ (page[x] = "form" /\ page'[x] = "none") =>
                /\ pc[x] = "reg_log"
                /\ toast'[x] = "Successfully registered"
                /\ \A s \in Range(closure[x].selectedStudents) :
                      \E r \in registrations :
                         r.student_id = s /\ r.sport_id = sport[x].id
          /\ (pc[x] = "reg_insert" /\ pc'[x] = "idle") =>
                /\ registrations' = registrations
                /\ page'[x] = "form"
                /\ ~showWarningDialog'[x]
                /\ toast'[x] = "Failed to register students"
          /\ pc'[x] = "reg_settings" =>
                \/ pc[x] = "reg_settings"
                \/ pc[x] = "info_registrations"
                \/ pc[x] = "idle" /\ showWarningDialog[x]]_vars

\* A write has failed after an earlier one was stored: the flag is cleared
\* and the form is still open.
C28_Witness ==
  /\ page["x1"] = "form"
  /\ pc["x1"] = "idle"
  /\ toast["x1"] = "Failed to register students"
  /\ ~registering["x1"]
  /\ registrations # {}


\* C29: every registration in the ledger is of a student in the students
\* table and of a sport in the sports table, and no registration of a
\* student who is not in the table is read by the quota count of any caller.
C29_RegistrationsReferenceRows ==
  /\ \A r \in registrations :
        r.student_id \in studentsTbl /\ r.sport_id \in DOMAIN sports
  /\ \A s \in StudentIds \ studentsTbl, p \in Profiles :
        CountedRegistrations(p, {s}) = {}

\* A student who had a registration has been deleted, the trigger logged
\* the removal of the registration, and another student's registration is
\* still in the ledger.
C29_Witness ==
  /\ "s1" \notin studentsTbl
  /\ \E i \in 1..Len(activity_logs) : activity_logs[i].action = "registration_deleted"
  /\ \E i \in 1..Len(activity_logs) : activity_logs[i].action = "student_deleted"
  /\ \E r \in registrations : r.student_id # "s1"


\* C30: for a student whose counts the form has loaded, canStudentRegister
\* holds exactly when the student has no existing registration for the
\* sport and the submit-time rule, applied to the loaded count and limit of
\* the sport's category, does not list the student.
C30_EligibilityAgreesWithQuotaRule ==
  \A x \in Sessions :
    page[x] = "form" =>
      \A s \in DOMAIN studentRegistrationCounts[x] :
        LET counts == studentRegistrationCounts[x][s]
            info == [id |-> s,
                     currentCount |-> IF sport[x].type = GAME THEN counts.games
                                      ELSE counts.athletics,
                     limit |-> LimitFor(registrationLimits[x], sport[x].type)]
        IN canStudentRegister(x, s) <=>
             /\ ~isStudentAlreadyRegistered(x, s)
             /\ getStudentsExceedingLimits({info}) = {}

\* The counts are loaded for a game with limit 1: one student holds a game
\* registration elsewhere and is refused by both checks, another holds none
\* and is accepted by both.
C30_Witness ==
  /\ page["x1"] = "form"
  /\ ~loading["x1"]
  /\ sport["x1"].type = GAME
  /\ LimitFor(registrationLimits["x1"], GAME) = 1
  /\ \E s \in DOMAIN studentRegistrationCounts["x1"],
        t \in DOMAIN studentRegistrationCounts["x1"] :
       /\ studentRegistrationCounts["x1"][s].games = 1
       /\ ~isStudentAlreadyRegistered("x1", s)
       /\ ~canStudentRegister("x1", s)
       /\ studentRegistrationCounts["x1"][t].games = 0
       /\ canStudentRegister("x1", t)

====
